---- MODULE Spec2Model ----
(***************************************************************************)
(* Model of the session / wallet core of pokemon-rs: the pure session      *)
(* state machine, the session manager and the play-action orchestration    *)
(* over the in-memory stores, and the wallet ledger.                       *)
(***************************************************************************)
EXTENDS Integers, Sequences, FiniteSets, TLC

VARIABLES
    sessions,            \* InMemorySessionStore.inner : session id -> Session
    creating,            \* create-session requests between repo.create and the counter bump
    reqs,                \* per connection: the play-action request it runs (locals + position)
    reqCount,            \* play-action requests received so far
    succeeded,           \* per session: the play-actions answered 200 so far
    events,              \* InMemoryEventStore.events : Vec<GameplayEvent>
    experiences,         \* InMemoryStore.experiences : session id -> Vec<Experience>
    sessions_created,    \* SessionMetrics.sessions_created
    sessions_completed,  \* SessionMetrics.sessions_completed
    sessions_playing,    \* SessionMetrics.sessions_playing
    wallets,             \* InMemoryWalletStore.inner : wallet id -> Wallet
    wres,                \* the last wallet request and its response
    whist,               \* the wallet operations received, each with its position and response
    smFrom, smTo, smRes, \* arguments and result of the last call of transition
    smCalls,             \* number of calls of transition made so far
    limiter,             \* RateLimiter.inner : key -> (window_start, count)
    max_requests,        \* RateLimiter.max_requests
    now,                 \* the monotonic clock read by Instant::now()
    lreqs,               \* per connection: the request inside rate_limit_middleware
    llog,                \* the calls of check made so far, in the order they ran
    api_keys,            \* AppState.api_keys : the configured tokens (empty: dev mode)
    hreqs,               \* per connection: the request to a protected endpoint it carries
    vres,                \* the last calls of parse_bearer_token and validate_token
    cres,                \* the create-session calls made so far, each with its response
    gres,                \* the last get-session request and its response
    listed,              \* the last call of list_by_session and its result
    config,              \* AppState.config : cost_per_spin, human_likeness_weight
    elisted,             \* the last call of the event store's list_by_session and its result
    ires,                \* the last direct insert into a store and its result
    exported             \* the last call of export_experiences and its result

vars == << sessions, creating, reqs, reqCount, succeeded, events, experiences,
           sessions_created,
           sessions_completed, sessions_playing, wallets, wres, whist,
           smFrom, smTo, smRes, smCalls,
           limiter, max_requests, now, lreqs, llog,
           api_keys, hreqs, vres, cres, gres, listed,
           config, elisted, ires, exported >>

sessionVars == << sessions, creating, reqs, reqCount, succeeded, events, experiences,
                  sessions_created, sessions_completed, sessions_playing >>
walletVars == << wallets, wres, whist >>
smVars == << smFrom, smTo, smRes, smCalls >>
limiterVars == << limiter, max_requests, now, lreqs, llog >>
obsVars == << config, elisted, ires, exported >>
apiVars == << api_keys, hreqs, vres, cres, gres, listed, obsVars >>

----------------------------------------------------------------------------
(* Bounds of the model *)

MaxPlays == 3         \* length of the sequences of play-actions tried to reach Completed
MaxReqs == 3          \* play-action requests over a run
MaxRaceReqs == 4      \* play-action requests over a run without faults
MaxSmCalls == 3       \* calls of transition in the pure-function specification
MaxAmount == 2        \* request amounts range over -MaxAmount..MaxAmount
MaxBalance == 4       \* runs stop before an amount of a wallet leaves -MaxBalance..MaxBalance
MaxWalletOps == 3     \* wallet operations over a run of concurrent operations
MaxChecks == 4        \* calls of the rate limiter over a run
MaxRpm == 2           \* the configured rate limits range over 0..MaxRpm
WindowSecs == 2       \* the rate-limit window in seconds (60 in the server)
TicksPerSec == 2      \* clock ticks per second
MaxTime == 5          \* the clock stops at this tick
MaxHttpReqs == 3      \* requests to protected endpoints over a run
MaxSessions == 2      \* sessions created in the runs about create and get
MaxCreatePlays == 2   \* play-actions started in those runs
MaxExperiences == 3   \* experiences inserted in the runs about list_by_session
MaxStamp == 2         \* the latest created_at an inserted experience carries
MaxRewardReqs == 1    \* play-action requests in the runs about rewards
MaxEvents == 2        \* events inserted in the runs about the event store
MaxEventStamp == 3    \* the latest timestamp, in ticks, an inserted event carries

----------------------------------------------------------------------------
(* GameState (enum discriminants) *)

Idle == 0
Initialized == 1
Probing == 2
Playing == 3
Evaluating == 4
Completed == 5

GameState == { Idle, Initialized, Probing, Playing, Evaluating, Completed }

\* #[derive(Debug)] on GameState: format!("{:?}", s) is the variant name.
DebugFmt(s) ==
    CASE s = Idle -> "Idle"
      [] s = Initialized -> "Initialized"
      [] s = Probing -> "Probing"
      [] s = Playing -> "Playing"
      [] s = Evaluating -> "Evaluating"
      [] s = Completed -> "Completed"

\* Mutant of ALLOWED: Initialized may also move to Evaluating.
ALLOWED_InitializedToEvaluating(from) ==
    CASE from = Idle -> << Initialized >>
      [] from = Initialized -> << Probing, Playing, Evaluating >>
      [] from = Probing -> << Playing >>
      [] from = Playing -> << Evaluating >>
      [] from = Evaluating -> << Playing, Completed >>
      [] from = Completed -> << >>

\* Allowed next states from each state, as the slice the table holds for it.
ALLOWED(from) ==
    CASE from = Idle -> << Initialized >>
      [] from = Initialized -> << Probing, Playing >>
      [] from = Probing -> << Playing >>
      [] from = Playing -> << Evaluating >>
      [] from = Evaluating -> << Playing, Completed >>
      [] from = Completed -> << >>

Contains(slice, x) == \E i \in 1..Len(slice) : slice[i] = x

Ok(s) == [ok |-> TRUE, state |-> s]
InvalidTransition(from, to) == [ok |-> FALSE, from |-> from, to |-> to]

\* Mutant of transition: the from == to shortcut is missing.
transition_NoSameState(from, to) ==
    IF Contains(ALLOWED(from), to) THEN Ok(to) ELSE InvalidTransition(from, to)

\* state_engine::transition
transition(from, to) ==
    IF from = to THEN Ok(to)
    ELSE IF Contains(ALLOWED(from), to) THEN Ok(to)
    ELSE InvalidTransition(from, to)

----------------------------------------------------------------------------
(* Sessions, play-action requests *)

SessionIds == { 1 }   \* the ids create-session hands out, in this order
GameIds == { 1 }      \* the game ids create-session requests carry
ActionTypes == { "PlaceBet", "Spin", "CashOut" }

\* play_action_handler: req.action.action_type -> target state
TargetState(action_type) ==
    CASE action_type = "PlaceBet" -> Playing
      [] action_type = "Spin" -> Evaluating
      [] action_type = "CashOut" -> Completed

NoState == -1   \* a local that has not been assigned yet
NoSession == [session_id |-> 0, game_id |-> 0, state |-> NoState,
              total_spins |-> 0, total_payout |-> 0]
NoResponse == [status |-> 0]

\* Client connections; each runs one request at a time, so at most two
\* play-actions run concurrently.
Conns == { 1, 2 }
InFlightPcs == { "get", "ts_get", "ts_update", "metrics", "event", "exp" }
InFlight == { c \in Conns : reqs[c].pc \in InFlightPcs }

\* A connection on which no request has been made yet.
IdleReq == [id |-> 0, sid |-> 0, action |-> [type |-> "none", amount |-> << >>],
            human_likeness |-> << >>, pc |-> "idle",
            prev_state |-> NoState, new_state |-> NoState,
            session |-> NoSession, ev_res |-> "none", exp_res |-> "none",
            resp |-> NoResponse,
            \* history, not program state: the state the store held just before
            \* this request's update_state, and whether the request never
            \* overlapped another request on its session
            before_write |-> NoState, alone |-> TRUE]

\* error.rs: HttpError::into_response
HttpError(err) ==
    CASE err = "NotFound" -> [status |-> 404, code |-> "NOT_FOUND"]
      [] err = "InvalidTransition" -> [status |-> 409, code |-> "STATE_ERROR"]
      [] err = "WalletLimitExceeded" -> [status |-> 402, code |-> "WALLET_LIMIT_EXCEEDED"]
      [] err = "InvalidInput" -> [status |-> 400, code |-> "INVALID_INPUT"]
      [] err = "RateLimitExceeded" -> [status |-> 429, code |-> "RATE_LIMIT"]
      [] err = "Internal" -> [status |-> 500, code |-> "INTERNAL_ERROR"]

\* event_store.rs: ALLOWED_ACTION_TYPES, validate_action_type
ALLOWED_ACTION_TYPES == << "PlaceBet", "Spin", "CashOut" >>
\* Mutant of validate_action_type: any action with a type field is valid.
validate_action_type_AnyType(action) == "type" \in DOMAIN action

validate_action_type(action) ==
    "type" \in DOMAIN action /\ Contains(ALLOWED_ACTION_TYPES, action.type)

\* Experience::is_session_valid: the session id is not the nil uuid (0 here)
is_session_valid(exp) == exp.session_id # 0

\* app_state.rs: AppConfig::default().rate_limit_rpm
DefaultRpm == 100
\* A connection with no request inside rate_limit_middleware.
IdleCheck == [key |-> "", pc |-> "idle", ok |-> FALSE, retry |-> 0]

\* Option<T>: None is the empty sequence, Some(x) the sequence of x alone.
None == << >>
Some(x) == << x >>

\* A connection with no request to a protected endpoint.
IdleHttp == [endpoint |-> "none", header |-> None, pc |-> "idle",
             token |-> None, resp |-> NoResponse,
             n |-> 0]    \* the requests this connection has carried
NoAuthCall == [header |-> None, parsed |-> None, token |-> << >>, keys |-> {},
               result |-> "none"]
NoGet == [id |-> 0, resp |-> NoResponse]
NoList == [session_id |-> 0, out |-> << >>]
NoInsert == [store |-> "none", ok |-> FALSE]
NoExport == [session_id |-> 0, limit |-> 0, offset |-> 0, list |-> << >>,
             ok |-> FALSE, experiences |-> << >>]

\* AppConfig::default(): cost_per_spin 0.01 (in hundredths), human_likeness_weight
\* 0.3 (in tenths).
DefaultConfig == [cost_per_spin |-> 1, human_likeness_weight |-> 3]

\* reward.rs: LIKENESS_WEIGHT = 0.3, in tenths
LIKENESS_WEIGHT == 3

Max(a, b) == IF a >= b THEN a ELSE b
Min(a, b) == IF a <= b THEN a ELSE b
\* f64::clamp
Clamp(x, lo, hi) == Max(lo, Min(x, hi))

\* Mutant of compute_reward_components: the likeness is not clamped.
compute_reward_components_NoClamp(payout, stake, cost, likeness, done) ==
    [payout_reward |-> (payout - stake) * 100,
     cost_penalty |-> 0 - Max(cost, 0),
     likeness_bonus |-> likeness * LIKENESS_WEIGHT,
     completion_bonus |-> IF done /\ payout > 0 THEN 100 ELSE 0]

\* reward::compute_reward_components. Money is in whole units, the cost in
\* hundredths, the likeness in tenths; the components are in hundredths.
compute_reward_components(payout, stake, cost, likeness, done) ==
    [payout_reward |-> (payout - stake) * 100,
     cost_penalty |-> 0 - Max(cost, 0),
     likeness_bonus |-> Clamp(likeness, 0, 10) * LIKENESS_WEIGHT,
     completion_bonus |-> IF done /\ payout > 0 THEN 100 ELSE 0]

\* reward::sum_reward
sum_reward(c) ==
    c.payout_reward + c.cost_penalty + c.likeness_bonus + c.completion_bonus

\* reward::compute_reward_safe: done is always false
compute_reward_safe(payout, stake, operational_cost, human_likeness_score) ==
    sum_reward(compute_reward_components(payout, stake, operational_cost,
                                         human_likeness_score, FALSE))

\* server.rs: simulate_result
simulate_result(action) ==
    IF action.type = "Spin" THEN [payout |-> << 0 >>, symbols |-> << "A", "B", "C" >>]
    ELSE [payout |-> << >>, symbols |-> << >>]

\* play_action_handler: the reward of request r under configuration cfg
HandlerReward(r, cfg) ==
    LET result == simulate_result(r.action)
        payout == IF result.payout = << >> THEN 0 ELSE result.payout[1]
        stake == IF r.action.amount = << >> THEN 0 ELSE r.action.amount[1]
        cost == cfg.cost_per_spin
        likeness == Clamp(IF r.human_likeness = << >> THEN 5 ELSE r.human_likeness[1],
                          0, 10)
    IN compute_reward_safe(payout, stake, cost, likeness)

NoWallet == [wallet_id |-> 0]
NoWalletRequest == [op |-> "none", wallet_id |-> 0, before |-> NoWallet,
                    resp |-> NoResponse]

Init ==
    /\ sessions = << >>
    /\ creating = {}
    /\ reqs = [c \in Conns |-> IdleReq]
    /\ reqCount = 0
    /\ succeeded = [s \in SessionIds |-> 0]
    /\ events = << >>
    /\ experiences = [s \in SessionIds |-> << >>]
    /\ sessions_created = 0
    /\ sessions_completed = 0
    /\ sessions_playing = 0
    /\ wallets = << >>
    /\ wres = NoWalletRequest
    /\ whist = << >>
    /\ smFrom = Idle
    /\ smTo = Idle
    /\ smRes = [ok |-> FALSE, from |-> NoState, to |-> NoState]
    /\ smCalls = 0
    /\ limiter = << >>
    /\ max_requests = DefaultRpm
    /\ now = 0
    /\ lreqs = [c \in Conns |-> IdleCheck]
    /\ llog = << >>
    /\ api_keys = {}
    /\ hreqs = [c \in Conns |-> IdleHttp]
    /\ vres = NoAuthCall
    /\ cres = << >>
    /\ gres = NoGet
    /\ listed = NoList
    /\ config = DefaultConfig
    /\ elisted = NoList
    /\ ires = NoInsert
    /\ exported = NoExport

\* create_session_handler, first half: GameSessionManager::create_session stores
\* a session with a fresh id in state Initialized (InMemorySessionStore::create).
\* Mutant of CreateSessionAmong: the stored session does not carry req.game_id.
CreateSessionAmong_IgnoresGameId(ids, g) ==
    /\ Len(sessions) + 1 \in ids
    /\ LET sid == Len(sessions) + 1
       IN /\ sessions' = Append(sessions,
                 [session_id |-> sid, game_id |-> 1, state |-> Initialized,
                  total_spins |-> 0, total_payout |-> 0])
          /\ creating' = creating \cup {sid}
          /\ cres' = Append(cres, [game_id |-> g,
                                   resp |-> [status |-> 201, session_id |-> sid,
                                             state |-> Initialized]])
    /\ UNCHANGED << reqs, reqCount, succeeded, events, experiences, sessions_created,
                    sessions_completed, sessions_playing >>
    /\ UNCHANGED << api_keys, hreqs, vres, gres, listed >> /\ UNCHANGED obsVars
    /\ UNCHANGED walletVars /\ UNCHANGED smVars /\ UNCHANGED limiterVars

\* The same, with the ids Uuid::new_v4 hands out drawn from ids, in order.
CreateSessionAmong(ids, g) ==
    /\ Len(sessions) + 1 \in ids
    /\ LET sid == Len(sessions) + 1
       IN /\ sessions' = Append(sessions,
                 [session_id |-> sid, game_id |-> g, state |-> Initialized,
                  total_spins |-> 0, total_payout |-> 0])
          /\ creating' = creating \cup {sid}
          /\ cres' = Append(cres, [game_id |-> g,
                                   resp |-> [status |-> 201, session_id |-> sid,
                                             state |-> Initialized]])
    /\ UNCHANGED << reqs, reqCount, succeeded, events, experiences, sessions_created,
                    sessions_completed, sessions_playing >>
    /\ UNCHANGED << api_keys, hreqs, vres, gres, listed >> /\ UNCHANGED obsVars
    /\ UNCHANGED walletVars /\ UNCHANGED smVars /\ UNCHANGED limiterVars

CreateSession(g) == CreateSessionAmong(SessionIds, g)

\* get_session_handler: mgr.get_session(id), 200 with the session or 404.
GetSession(id) ==
    /\ gres' = [id |-> id,
                resp |-> IF id \in DOMAIN sessions
                         THEN [status |-> 200, session |-> sessions[id]]
                         ELSE HttpError("NotFound")]
    /\ UNCHANGED << api_keys, hreqs, vres, cres, listed >> /\ UNCHANGED obsVars
    /\ UNCHANGED sessionVars /\ UNCHANGED walletVars /\ UNCHANGED smVars
    /\ UNCHANGED limiterVars

\* create_session_handler, second half: state.metrics.record_session_created()
CreateSessionRecorded(sid) ==
    /\ sid \in creating
    /\ creating' = creating \ {sid}
    /\ sessions_created' = sessions_created + 1
    /\ UNCHANGED << sessions, reqs, reqCount, succeeded, events, experiences,
                    sessions_completed, sessions_playing >>
    /\ UNCHANGED walletVars /\ UNCHANGED smVars /\ UNCHANGED limiterVars /\ UNCHANGED apiVars

\* A play-action request arrives on a connection that is not running one:
\* POST /sessions/:id/action with an action type.
PlayStartWith(max, c, sid, a, amount, human_likeness) ==
    /\ reqCount < max
    /\ c \notin InFlight
    /\ \A d \in Conns : d < c => d \in InFlight
    /\ reqCount' = reqCount + 1
    /\ UNCHANGED succeeded
    /\ reqs' = [d \in Conns |->
          IF d = c
          THEN [IdleReq EXCEPT !.id = reqCount + 1, !.sid = sid,
                               !.action = [type |-> a, amount |-> amount],
                               !.human_likeness = human_likeness, !.pc = "get",
                               !.alone = \A e \in InFlight : reqs[e].sid # sid]
          ELSE IF reqs[d].sid = sid THEN [reqs[d] EXCEPT !.alone = FALSE]
          ELSE reqs[d]]
    /\ UNCHANGED << sessions, creating, events, experiences, sessions_created,
                    sessions_completed, sessions_playing >>
    /\ UNCHANGED walletVars /\ UNCHANGED smVars /\ UNCHANGED limiterVars /\ UNCHANGED apiVars

\* The same for a request that carries neither an amount nor a human_likeness.
PlayStartUpTo(max, c, sid, a) == PlayStartWith(max, c, sid, a, << >>, << >>)

PlayStart(c, sid, a) == PlayStartUpTo(MaxReqs, c, sid, a)

\* The part of every step of a play-action that touches only that request.
SetReq(i, r) ==
    /\ reqs' = [reqs EXCEPT ![i] = r]
    /\ succeeded' = IF r.pc = "ok" THEN [succeeded EXCEPT ![r.sid] = @ + 1]
                    ELSE succeeded
    /\ UNCHANGED reqCount

\* play_action_handler: mgr.get_session(id) -> prev_state, or NotFound
PlayGetSession(i) ==
    /\ i \in Conns
    /\ reqs[i].pc = "get"
    /\ LET r == reqs[i]
       IN IF r.sid \in DOMAIN sessions
          THEN SetReq(i, [r EXCEPT !.pc = "ts_get",
                                   !.prev_state = sessions[r.sid].state])
          ELSE SetReq(i, [r EXCEPT !.pc = "failed",
                                   !.resp = HttpError("NotFound")])
    /\ UNCHANGED << sessions, creating, events, experiences, sessions_created,
                    sessions_completed, sessions_playing >>
    /\ UNCHANGED walletVars /\ UNCHANGED smVars /\ UNCHANGED limiterVars /\ UNCHANGED apiVars

\* Mutant of TransitionCheck: the state machine is not consulted.
TransitionCheck_Unchecked(current_state, to_state) == Ok(to_state)

\* GameSessionManager::transition_session: transition(current.state, to_state)
TransitionCheck(current_state, to_state) == transition(current_state, to_state)

\* Mutant of PlayTransitionRead: the target state is stored before the state
\* machine is consulted.
PlayTransitionRead_WriteFirst(i) ==
    /\ i \in Conns
    /\ reqs[i].pc = "ts_get"
    /\ reqs[i].sid \in DOMAIN sessions
    /\ LET r == reqs[i]
           t == TransitionCheck(sessions[r.sid].state, TargetState(r.action.type))
       IN /\ sessions' = [sessions EXCEPT ![r.sid].state = TargetState(r.action.type)]
          /\ IF t.ok
             THEN SetReq(i, [r EXCEPT !.pc = "ts_update", !.new_state = t.state])
             ELSE SetReq(i, [r EXCEPT !.pc = "failed",
                                      !.resp = HttpError("InvalidTransition")])
    /\ UNCHANGED << creating, events, experiences, sessions_created,
                    sessions_completed, sessions_playing >>
    /\ UNCHANGED walletVars /\ UNCHANGED smVars /\ UNCHANGED limiterVars /\ UNCHANGED apiVars

\* Mutant of PlayTransitionRead: the gameplay event is inserted as soon as the
\* transition is found valid, before update_state.
PlayTransitionRead_EventFirst(i) ==
    /\ i \in Conns
    /\ reqs[i].pc = "ts_get"
    /\ reqs[i].sid \in DOMAIN sessions
    /\ LET r == reqs[i]
           t == TransitionCheck(sessions[r.sid].state, TargetState(r.action.type))
       IN IF t.ok
          THEN /\ SetReq(i, [r EXCEPT !.pc = "ts_update", !.new_state = t.state])
               /\ events' = Append(events, [event_id |-> r.id, session_id |-> r.sid,
                                            action |-> r.action])
          ELSE /\ SetReq(i, [r EXCEPT !.pc = "failed",
                                      !.resp = HttpError("InvalidTransition")])
               /\ UNCHANGED events
    /\ UNCHANGED << sessions, creating, experiences, sessions_created,
                    sessions_completed, sessions_playing >>
    /\ UNCHANGED walletVars /\ UNCHANGED smVars /\ UNCHANGED limiterVars /\ UNCHANGED apiVars

\* GameSessionManager::transition_session, first half: repo.get_by_id and the
\* check of the state machine against the state just read.
PlayTransitionRead(i) ==
    /\ i \in Conns
    /\ reqs[i].pc = "ts_get"
    /\ LET r == reqs[i]
       IN IF r.sid \notin DOMAIN sessions
          THEN SetReq(i, [r EXCEPT !.pc = "failed",
                                   !.resp = HttpError("NotFound")])
          ELSE LET t == TransitionCheck(sessions[r.sid].state, TargetState(r.action.type))
               IN IF t.ok
                  THEN SetReq(i, [r EXCEPT !.pc = "ts_update",
                                           !.new_state = t.state])
                  ELSE SetReq(i, [r EXCEPT !.pc = "failed",
                                           !.resp = HttpError("InvalidTransition")])
    /\ UNCHANGED << sessions, creating, events, experiences, sessions_created,
                    sessions_completed, sessions_playing >>
    /\ UNCHANGED walletVars /\ UNCHANGED smVars /\ UNCHANGED limiterVars /\ UNCHANGED apiVars

\* Mutant of update_state: the write also counts a spin in the metrics.
update_state_CountsSpin(store, id, state) ==
    [store EXCEPT ![id].state = state, ![id].total_spins = @ + 1]

\* InMemorySessionStore::update_state
update_state(store, id, state) == [store EXCEPT ![id].state = state]

\* GameSessionManager::transition_session, second half: repo.update_state
\* writes the new state and returns a clone of the stored session.
PlayTransitionWrite(i) ==
    /\ i \in Conns
    /\ reqs[i].pc = "ts_update"
    /\ LET r == reqs[i]
       IN IF r.sid \notin DOMAIN sessions
          THEN /\ SetReq(i, [r EXCEPT !.pc = "failed",
                                      !.resp = HttpError("NotFound")])
               /\ UNCHANGED sessions
          ELSE /\ sessions' = update_state(sessions, r.sid, r.new_state)
               /\ SetReq(i, [r EXCEPT !.pc = "metrics",
                                      !.before_write = sessions[r.sid].state,
                                      !.session = sessions'[r.sid]])
    /\ UNCHANGED << creating, events, experiences, sessions_created,
                    sessions_completed, sessions_playing >>
    /\ UNCHANGED walletVars /\ UNCHANGED smVars /\ UNCHANGED limiterVars /\ UNCHANGED apiVars

\* Mutant of PlayMetrics: a session left Evaluating counts as playing too.
PlayMetrics_CountsEvaluating(i) ==
    /\ i \in Conns
    /\ reqs[i].pc = "metrics"
    /\ LET r == reqs[i]
       IN /\ sessions_playing' =
                IF r.session.state \in { Playing, Evaluating } THEN sessions_playing + 1
                ELSE sessions_playing
          /\ sessions_completed' =
                IF r.session.state = Completed THEN sessions_completed + 1
                ELSE sessions_completed
          /\ SetReq(i, [r EXCEPT !.pc = "event"])
    /\ UNCHANGED << sessions, creating, events, experiences, sessions_created >>
    /\ UNCHANGED walletVars /\ UNCHANGED smVars /\ UNCHANGED limiterVars /\ UNCHANGED apiVars

\* play_action_handler: match session.state { Playing => record_session_playing,
\* Completed => record_session_completed, _ => {} }
PlayMetrics(i) ==
    /\ i \in Conns
    /\ reqs[i].pc = "metrics"
    /\ LET r == reqs[i]
       IN /\ sessions_playing' =
                IF r.session.state = Playing THEN sessions_playing + 1
                ELSE sessions_playing
          /\ sessions_completed' =
                IF r.session.state = Completed THEN sessions_completed + 1
                ELSE sessions_completed
          /\ SetReq(i, [r EXCEPT !.pc = "event"])
    /\ UNCHANGED << sessions, creating, events, experiences, sessions_created >>
    /\ UNCHANGED walletVars /\ UNCHANGED smVars /\ UNCHANGED limiterVars /\ UNCHANGED apiVars

\* play_action_handler: GameplayEvent { event_id, session_id: id, action, result,
\* timestamp: Some(Utc::now()), reward: Some(reward) }
NewEvent(r) ==
    [event_id |-> r.id, session_id |-> r.sid, action |-> r.action,
     timestamp |-> << now >>, reward |-> << HandlerReward(r, config) >>]

\* Mutant of PlayEventInsert: a failed insert is propagated with `?` and the
\* request ends 500.
PlayEventInsert_FailsRequest(i, store_ok) ==
    /\ i \in Conns
    /\ reqs[i].pc = "event"
    /\ LET r == reqs[i]
           event == NewEvent(r)
           inserted == validate_action_type(event.action) /\ store_ok
       IN /\ events' = IF inserted THEN Append(events, event) ELSE events
          /\ IF inserted
             THEN SetReq(i, [r EXCEPT !.pc = "exp", !.ev_res = "ok"])
             ELSE SetReq(i, [r EXCEPT !.pc = "failed", !.ev_res = "err",
                                      !.resp = HttpError("Internal")])
    /\ UNCHANGED << sessions, creating, experiences, sessions_created,
                    sessions_completed, sessions_playing >>
    /\ UNCHANGED walletVars /\ UNCHANGED smVars /\ UNCHANGED limiterVars /\ UNCHANGED apiVars

\* play_action_handler: build the GameplayEvent and state.event_store.insert;
\* a failure is logged and the handler goes on. store_ok is whether the
\* backend's write succeeds.
PlayEventInsert(i, store_ok) ==
    /\ i \in Conns
    /\ reqs[i].pc = "event"
    /\ LET r == reqs[i]
           event == NewEvent(r)
           inserted == validate_action_type(event.action) /\ store_ok
       IN /\ events' = IF inserted THEN Append(events, event) ELSE events
          /\ SetReq(i, [r EXCEPT !.pc = "exp",
                                 !.ev_res = IF inserted THEN "ok" ELSE "err"])
    /\ UNCHANGED << sessions, creating, experiences, sessions_created,
                    sessions_completed, sessions_playing >>
    /\ UNCHANGED walletVars /\ UNCHANGED smVars /\ UNCHANGED limiterVars /\ UNCHANGED apiVars

\* Mutant of NewExperience: done is computed from the previous state.
NewExperience_DoneFromPrev(r) ==
    [id |-> r.id, session_id |-> r.sid,
     state |-> [state |-> DebugFmt(r.prev_state)],
     action |-> r.action,
     next_state |-> [state |-> DebugFmt(r.session.state)],
     done |-> (r.prev_state = Completed),
     reward |-> HandlerReward(r, config),
     created_at |-> None]

\* play_action_handler: Experience::new(id, {"state": prev_state}, action,
\* reward, {"state": session.state}, done)
NewExperience(r) ==
    [id |-> r.id, session_id |-> r.sid,
     state |-> [state |-> DebugFmt(r.prev_state)],
     action |-> r.action,
     next_state |-> [state |-> DebugFmt(r.session.state)],
     done |-> (r.session.state = Completed),
     reward |-> HandlerReward(r, config),
     created_at |-> None]

\* Mutant of PlayExperienceInsert: a request whose transition left the state
\* where it was records no experience.
PlayExperienceInsert_SkipsSameState(i, store_ok) ==
    /\ i \in Conns
    /\ reqs[i].pc = "exp"
    /\ LET r == reqs[i]
           exp == NewExperience(r)
           inserted == is_session_valid(exp) /\ store_ok
                           /\ r.prev_state # r.session.state
       IN /\ experiences' =
                IF inserted
                THEN [experiences EXCEPT ![exp.session_id] = Append(@, exp)]
                ELSE experiences
          /\ SetReq(i, [r EXCEPT !.pc = "ok",
                                 !.exp_res = IF inserted THEN "ok" ELSE "err",
                                 !.resp = [status |-> 200, session |-> r.session]])
    /\ UNCHANGED << sessions, creating, events, sessions_created,
                    sessions_completed, sessions_playing >>
    /\ UNCHANGED walletVars /\ UNCHANGED smVars /\ UNCHANGED limiterVars /\ UNCHANGED apiVars

\* play_action_handler: state.rl_store.insert_experience; a failure is logged;
\* then the handler answers 200 with {session, result}.
PlayExperienceInsert(i, store_ok) ==
    /\ i \in Conns
    /\ reqs[i].pc = "exp"
    /\ LET r == reqs[i]
           exp == NewExperience(r)
           inserted == is_session_valid(exp) /\ store_ok
       IN /\ experiences' =
                IF inserted
                THEN [experiences EXCEPT ![exp.session_id] = Append(@, exp)]
                ELSE experiences
          /\ SetReq(i, [r EXCEPT !.pc = "ok",
                                 !.exp_res = IF inserted THEN "ok" ELSE "err",
                                 !.resp = [status |-> 200, session |-> r.session]])
    /\ UNCHANGED << sessions, creating, events, sessions_created,
                    sessions_completed, sessions_playing >>
    /\ UNCHANGED walletVars /\ UNCHANGED smVars /\ UNCHANGED limiterVars /\ UNCHANGED apiVars

\* The request is cancelled (client disconnect) or the task dies with the
\* process: the handler stops where it is, its locals are dropped and no
\* response is sent.
PlayAbort(i) ==
    /\ i \in Conns
    /\ reqs[i].pc \in InFlightPcs
    /\ SetReq(i, [IdleReq EXCEPT !.pc = "aborted", !.id = reqs[i].id,
                                 !.sid = reqs[i].sid, !.action = reqs[i].action,
                                 !.human_likeness = reqs[i].human_likeness,
                                 !.before_write = reqs[i].before_write,
                                 !.alone = reqs[i].alone])
    /\ UNCHANGED << sessions, creating, events, experiences, sessions_created,
                    sessions_completed, sessions_playing >>
    /\ UNCHANGED walletVars /\ UNCHANGED smVars /\ UNCHANGED limiterVars /\ UNCHANGED apiVars

Next ==
    \/ \E g \in GameIds : CreateSession(g)
    \/ \E sid \in SessionIds : CreateSessionRecorded(sid)
    \/ \E c \in Conns, sid \in SessionIds, a \in ActionTypes : PlayStart(c, sid, a)
    \/ \E c \in Conns : PlayGetSession(c)
    \/ \E c \in Conns : PlayTransitionRead(c)
    \/ \E c \in Conns : PlayTransitionWrite(c)
    \/ \E c \in Conns : PlayMetrics(c)
    \/ \E c \in Conns, store_ok \in BOOLEAN : PlayEventInsert(c, store_ok)
    \/ \E c \in Conns, store_ok \in BOOLEAN : PlayExperienceInsert(c, store_ok)
    \/ \E c \in Conns : PlayAbort(c)

\* Sessions and play-actions with failing stores and aborted requests.
Spec == Init /\ [][Next]_vars

PlayStartRace(c, sid, a) == PlayStartUpTo(MaxRaceReqs, c, sid, a)

NextRace ==
    \/ \E g \in GameIds : CreateSession(g)
    \/ \E sid \in SessionIds : CreateSessionRecorded(sid)
    \/ \E c \in Conns, sid \in SessionIds, a \in ActionTypes : PlayStartRace(c, sid, a)
    \/ \E c \in Conns : PlayGetSession(c)
    \/ \E c \in Conns : PlayTransitionRead(c)
    \/ \E c \in Conns : PlayTransitionWrite(c)
    \/ \E c \in Conns : PlayMetrics(c)
    \/ \E c \in Conns : PlayEventInsert(c, TRUE)
    \/ \E c \in Conns : PlayExperienceInsert(c, TRUE)

\* The same system over longer runs, with stores that do not fail and requests
\* that are not aborted: every behaviour of SpecRace is one of the program.
SpecRace == Init /\ [][NextRace]_vars

----------------------------------------------------------------------------
(* The pure state machine, called on arbitrary pairs of states *)

SmCall(a, b) ==
    /\ smCalls < MaxSmCalls
    /\ smFrom' = a
    /\ smTo' = b
    /\ smRes' = transition(a, b)
    /\ smCalls' = smCalls + 1
    /\ UNCHANGED sessionVars /\ UNCHANGED walletVars /\ UNCHANGED limiterVars /\ UNCHANGED apiVars

NextTransition == \E a \in GameState, b \in GameState : SmCall(a, b)

SpecTransition == Init /\ [][NextTransition]_vars

\* The edges of the state machine as section 4.1 lists them.
AllowedEdges ==
    { << Idle, Initialized >>, << Initialized, Probing >>,
      << Initialized, Playing >>, << Probing, Playing >>,
      << Playing, Evaluating >>, << Evaluating, Playing >>,
      << Evaluating, Completed >> }

\* C1: transition(a, b) returns Ok(b) iff a = b or (a, b) is an allowed edge;
\* in every other case it returns InvalidTransition with from = a and to = b.
C1_TransitionIffAllowed ==
    smCalls > 0 =>
        IF smFrom = smTo \/ << smFrom, smTo >> \in AllowedEdges
        THEN smRes = [ok |-> TRUE, state |-> smTo]
        ELSE smRes = [ok |-> FALSE, from |-> smFrom, to |-> smTo]

\* A call on a pair that is neither an edge nor a == b has been answered.
C1_Witness ==
    /\ smCalls > 0
    /\ smFrom = Completed /\ smTo = Playing
    /\ ~smRes.ok

----------------------------------------------------------------------------
(* The wallet ledger *)

WalletIds == { 1 }    \* the wallet ids requests name
Currency == { "AUD", "USD", "EUR" }
Amounts == (0 - MaxAmount)..MaxAmount
MoneyIn(currencies) == [amount : Amounts, currency : currencies]
\* The currencies the requests of SpecWallet carry: single-currency clients.
WalletCurrencies == { "AUD" }
WalletOperationType == { "debit", "credit" }

\* HashMap::insert
Insert(store, key, value) ==
    [k \in DOMAIN store \cup {key} |-> IF k = key THEN value ELSE store[k]]

\* Mutant of apply_operation: the daily limit is not checked on a debit.
apply_operation_NoDailyLimit(store, wallet_id, operation, amount) ==
    IF wallet_id \notin DOMAIN store
    THEN [ok |-> FALSE, err |-> "NotFound", store |-> store]
    ELSE LET wallet == store[wallet_id]
         IN IF operation = "debit"
            THEN IF wallet.balance.amount < amount.amount
                 THEN [ok |-> FALSE, err |-> "WalletLimitExceeded", store |-> store]
                 ELSE LET w == [wallet EXCEPT
                                  !.balance.amount = @ - amount.amount,
                                  !.daily_spent.amount = @ + amount.amount]
                      IN [ok |-> TRUE, wallet |-> w,
                          store |-> [store EXCEPT ![wallet_id] = w]]
            ELSE LET w == [wallet EXCEPT !.balance.amount = @ + amount.amount]
                 IN [ok |-> TRUE, wallet |-> w,
                     store |-> [store EXCEPT ![wallet_id] = w]]

\* Mutant of apply_operation: a debit takes the amount off the balance before
\* the daily limit is checked.
apply_operation_DebitBeforeDailyCheck(store, wallet_id, operation, amount) ==
    IF wallet_id \notin DOMAIN store
    THEN [ok |-> FALSE, err |-> "NotFound", store |-> store]
    ELSE LET wallet == store[wallet_id]
         IN IF operation = "debit"
            THEN IF wallet.balance.amount < amount.amount
                 THEN [ok |-> FALSE, err |-> "WalletLimitExceeded", store |-> store]
                 ELSE IF wallet.daily_spent.amount + amount.amount
                            > wallet.daily_limit.amount
                 THEN [ok |-> FALSE, err |-> "WalletLimitExceeded",
                       store |-> [store EXCEPT
                                    ![wallet_id].balance.amount = @ - amount.amount]]
                 ELSE LET w == [wallet EXCEPT
                                  !.balance.amount = @ - amount.amount,
                                  !.daily_spent.amount = @ + amount.amount]
                      IN [ok |-> TRUE, wallet |-> w,
                          store |-> [store EXCEPT ![wallet_id] = w]]
            ELSE LET w == [wallet EXCEPT !.balance.amount = @ + amount.amount]
                 IN [ok |-> TRUE, wallet |-> w,
                     store |-> [store EXCEPT ![wallet_id] = w]]

\* Mutant of apply_operation: a credit gives the amount back to daily_spent.
apply_operation_CreditRefunds(store, wallet_id, operation, amount) ==
    IF wallet_id \notin DOMAIN store
    THEN [ok |-> FALSE, err |-> "NotFound", store |-> store]
    ELSE LET wallet == store[wallet_id]
         IN IF operation = "debit"
            THEN IF wallet.balance.amount < amount.amount
                 THEN [ok |-> FALSE, err |-> "WalletLimitExceeded", store |-> store]
                 ELSE IF wallet.daily_spent.amount + amount.amount
                            > wallet.daily_limit.amount
                 THEN [ok |-> FALSE, err |-> "WalletLimitExceeded", store |-> store]
                 ELSE LET w == [wallet EXCEPT
                                  !.balance.amount = @ - amount.amount,
                                  !.daily_spent.amount = @ + amount.amount]
                      IN [ok |-> TRUE, wallet |-> w,
                          store |-> [store EXCEPT ![wallet_id] = w]]
            ELSE LET w == [wallet EXCEPT !.balance.amount = @ + amount.amount,
                                         !.daily_spent.amount = @ - amount.amount]
                 IN [ok |-> TRUE, wallet |-> w,
                     store |-> [store EXCEPT ![wallet_id] = w]]

\* InMemoryWalletStore::apply_operation, one step under the store's lock:
\* the result (the wallet's clone, or the error) and the store after it.
apply_operation(store, wallet_id, operation, amount) ==
    IF wallet_id \notin DOMAIN store
    THEN [ok |-> FALSE, err |-> "NotFound", store |-> store]
    ELSE LET wallet == store[wallet_id]
         IN IF operation = "debit"
            THEN IF wallet.balance.amount < amount.amount
                 THEN [ok |-> FALSE, err |-> "WalletLimitExceeded", store |-> store]
                 ELSE IF wallet.daily_spent.amount + amount.amount
                            > wallet.daily_limit.amount
                 THEN [ok |-> FALSE, err |-> "WalletLimitExceeded", store |-> store]
                 ELSE LET w == [wallet EXCEPT
                                  !.balance.amount = @ - amount.amount,
                                  !.daily_spent.amount = @ + amount.amount]
                      IN [ok |-> TRUE, wallet |-> w,
                          store |-> [store EXCEPT ![wallet_id] = w]]
            ELSE LET w == [wallet EXCEPT !.balance.amount = @ + amount.amount]
                 IN [ok |-> TRUE, wallet |-> w,
                     store |-> [store EXCEPT ![wallet_id] = w]]

InRange(store) ==
    \A k \in DOMAIN store :
        /\ store[k].balance.amount \in (0 - MaxBalance)..MaxBalance
        /\ store[k].daily_spent.amount \in (0 - MaxBalance)..MaxBalance

\* create_wallet_handler: the wallet is built from the request, daily_spent is
\* zero in the balance currency, and InMemoryWalletStore::create inserts it.
CreateWallet(id, balance, daily_limit) ==
    /\ LET wallet == [wallet_id |-> id, balance |-> balance,
                      daily_limit |-> daily_limit,
                      daily_spent |-> [amount |-> 0, currency |-> balance.currency]]
       IN /\ wallets' = Insert(wallets, id, wallet)
          /\ wres' = [op |-> "create", wallet_id |-> id,
                      before |-> IF id \in DOMAIN wallets THEN wallets[id] ELSE NoWallet,
                      resp |-> [status |-> 201, wallet |-> wallet]]
    /\ UNCHANGED whist
    /\ UNCHANGED sessionVars /\ UNCHANGED smVars /\ UNCHANGED limiterVars /\ UNCHANGED apiVars

\* wallet_operation_handler: apply_operation, answered 200 {wallet} or the error
WalletOperation(id, operation, amount) ==
    /\ LET out == apply_operation(wallets, id, operation, amount)
       IN /\ InRange(out.store)
          /\ wallets' = out.store
          /\ wres' = [op |-> operation, wallet_id |-> id, amount |-> amount,
                      before |-> IF id \in DOMAIN wallets THEN wallets[id] ELSE NoWallet,
                      resp |-> IF out.ok THEN [status |-> 200, wallet |-> out.wallet]
                               ELSE HttpError(out.err)]
    /\ UNCHANGED whist
    /\ UNCHANGED sessionVars /\ UNCHANGED smVars /\ UNCHANGED limiterVars /\ UNCHANGED apiVars

NextWallet ==
    \/ \E id \in WalletIds, balance \in MoneyIn(WalletCurrencies),
          daily_limit \in MoneyIn(WalletCurrencies) :
          CreateWallet(id, balance, daily_limit)
    \/ \E id \in WalletIds, operation \in WalletOperationType,
          amount \in MoneyIn(WalletCurrencies) :
          WalletOperation(id, operation, amount)

SpecWallet == Init /\ [][NextWallet]_vars

\* C10: a debit of x on an existing wallet succeeds exactly when balance >= x
\* and daily_spent + x <= daily_limit; on success balance' = balance - x,
\* daily_spent' = daily_spent + x, daily_limit is unchanged and the returned
\* snapshot is the stored wallet.
C10_DebitContract ==
    (wres.op = "debit" /\ wres.before # NoWallet) =>
        LET b == wres.before
            x == wres.amount.amount
        IN /\ (wres.resp.status = 200) <=>
                 (b.balance.amount >= x
                  /\ b.daily_spent.amount + x <= b.daily_limit.amount)
           /\ wres.resp.status = 200 =>
                 /\ wres.resp.wallet.balance.amount = b.balance.amount - x
                 /\ wres.resp.wallet.daily_spent.amount = b.daily_spent.amount + x
                 /\ wres.resp.wallet.daily_limit = b.daily_limit
                 /\ wres.resp.wallet.wallet_id = b.wallet_id
                 /\ wres.resp.wallet = wallets[wres.wallet_id]

\* A debit of a positive amount succeeded on a wallet that had spent before.
C10_Witness ==
    /\ wres.op = "debit" /\ wres.before # NoWallet
    /\ wres.resp.status = 200
    /\ wres.amount.amount > 0
    /\ wres.before.daily_spent.amount > 0

----------------------------------------------------------------------------
(* Claims about play-actions *)

HasEvent(k) == \E i \in 1..Len(events) : events[i].event_id = k
ExperiencesOf(k) ==
    { x \in UNION { { experiences[s][i] : i \in 1..Len(experiences[s]) } :
                    s \in SessionIds } : x.id = k }
HasExperience(k) == ExperiencesOf(k) # {}
Finished(r) == r.pc \in { "ok", "failed" }

\* The action-to-target mapping as section 4.1 states it.
SpecTarget(type) ==
    IF type = "PlaceBet" THEN Playing
    ELSE IF type = "Spin" THEN Evaluating
    ELSE Completed

C2_Answer(r) ==
    IF r.prev_state = NoState
    THEN r.resp = [status |-> 404, code |-> "NOT_FOUND"]
    ELSE IF transition(r.prev_state, SpecTarget(r.action.type)).ok
         THEN /\ r.resp.status = 200
              /\ r.resp.session.state = SpecTarget(r.action.type)
              /\ sessions[r.sid].state = SpecTarget(r.action.type)
         ELSE /\ r.resp = [status |-> 409, code |-> "STATE_ERROR"]
              /\ sessions[r.sid].state = r.prev_state

C2_Lookup(r, q) ==
    (r.pc = "get" /\ q.pc \notin { "get", "aborted" }) =>
        IF r.sid \in DOMAIN sessions
        THEN q.pc = "ts_get" /\ q.prev_state = sessions[r.sid].state
        ELSE q.pc = "failed" /\ q.prev_state = NoState

\* C2: a play-action that runs alone on its session, found in persisted state
\* s, succeeds and leaves the target state of its action type persisted exactly
\* when transition(s, target) succeeds, and is answered 409 STATE_ERROR
\* otherwise; a play-action on an unknown session id is answered 404 NOT_FOUND.
C2_PlayActionFollowsStateMachine ==
    /\ [](\A c \in Conns : (reqs[c].alone /\ Finished(reqs[c])) => C2_Answer(reqs[c]))
    /\ [][\A c \in Conns : C2_Lookup(reqs[c], reqs'[c])]_vars

\* A PlaceBet that ran alone on an Initialized session was answered 200 and
\* the session is Playing.
C2_Witness ==
    \E c \in Conns :
        /\ reqs[c].alone /\ reqs[c].pc = "ok"
        /\ reqs[c].prev_state = Initialized
        /\ reqs[c].action.type = "PlaceBet"
        /\ sessions[reqs[c].sid].state = Playing

\* C3: once the persisted state of a session is Completed it stays Completed.
C3_CompletedIsTerminal ==
    [][\A s \in DOMAIN sessions :
          sessions[s].state = Completed => sessions'[s].state = Completed]_vars

\* C4: every write that changes a session's persisted state follows an allowed
\* edge of the state machine from the state persisted just before the write.
C4_WritesFollowEdges ==
    [][\A s \in DOMAIN sessions :
          sessions'[s].state # sessions[s].state =>
              << sessions[s].state, sessions'[s].state >> \in AllowedEdges]_vars

StoresUnchanged ==
    UNCHANGED << sessions, creating, events, experiences, sessions_created,
                 sessions_completed, sessions_playing, wallets >>

C5_Step(r, q) ==
    /\ (q.pc = "failed" /\ r.pc # "failed") =>
          (r.pc \in { "get", "ts_get" } /\ q.resp.status \in { 404, 409 }
           /\ StoresUnchanged)
    /\ (r.pc \in { "get", "ts_get" } /\ q.pc # r.pc) => StoresUnchanged

\* C5: a play-action that fails (404 or 409) has changed nothing: no step it
\* took changed the session store, the event store, the experience store or a
\* metrics counter, and it holds no event and no experience.
C5_FailedPlayActionChangesNothing ==
    /\ [](\A c \in Conns :
            reqs[c].pc = "failed" =>
                /\ reqs[c].before_write = NoState
                /\ ~HasEvent(reqs[c].id)
                /\ ~HasExperience(reqs[c].id))
    /\ [][\A c \in Conns : C5_Step(reqs[c], reqs'[c])]_vars

\* A play-action was refused with 409 on a session that exists.
C5_Witness ==
    \E c \in Conns :
        /\ reqs[c].pc = "failed"
        /\ reqs[c].resp.status = 409
        /\ reqs[c].sid \in DOMAIN sessions

\* C6: an event of a play-action exists only once its state write is
\* committed, and an experience of it only once the write is committed and the
\* event insert has been made.
C6_WriteBeforeEventBeforeExperience ==
    \A c \in Conns :
        /\ HasEvent(reqs[c].id) => reqs[c].before_write # NoState
        /\ HasExperience(reqs[c].id) =>
              (reqs[c].before_write # NoState /\ reqs[c].ev_res # "none")

\* One play-action has its event stored after its write; another was aborted
\* after its write advanced the session and has no event.
C6_Witness ==
    \E c, d \in Conns :
        /\ HasEvent(reqs[c].id) /\ reqs[c].before_write # NoState
        /\ reqs[d].pc = "aborted" /\ reqs[d].before_write # NoState
        /\ sessions[reqs[d].sid].state = TargetState(reqs[d].action.type)
        /\ sessions[reqs[d].sid].state # reqs[d].before_write
        /\ ~HasEvent(reqs[d].id)

C7_Inv(r) ==
    r.before_write # NoState =>
        /\ r.pc # "failed"
        /\ r.ev_res = "err" => r.pc \in { "exp", "ok", "aborted" }
        /\ r.pc = "ok" =>
              /\ r.resp = [status |-> 200, session |-> r.session]
              /\ r.session.state = TargetState(r.action.type)
              /\ r.ev_res # "none" /\ r.exp_res # "none"

C7_Step(r, q) ==
    (r.pc \in { "event", "exp" } /\ q.pc # r.pc) => UNCHANGED sessions

\* C7: after a successful state transition a failing event insert or
\* experience insert does not fail the request: it ends with 200 and
\* {session, result}, the session store is not touched again, and the
\* experience insert is made whatever the event insert returned.
C7_InsertFailuresAreSwallowed ==
    /\ [](\A c \in Conns : C7_Inv(reqs[c]))
    /\ [][\A c \in Conns : C7_Step(reqs[c], reqs'[c])]_vars

\* A request ended 200 although its event insert failed, and its experience
\* was inserted.
C7_Witness ==
    \E c \in Conns :
        /\ reqs[c].pc = "ok" /\ reqs[c].resp.status = 200
        /\ reqs[c].ev_res = "err" /\ reqs[c].exp_res = "ok"
        /\ HasExperience(reqs[c].id)

\* C8: the state recorded on a play-action's experience is the state the
\* session held immediately before that action's state write.
C8_ExperienceStateIsPrevious ==
    \A c \in Conns :
        \A x \in ExperiencesOf(reqs[c].id) :
            x.state = [state |-> DebugFmt(reqs[c].before_write)]

\* C9: an experience's next_state is the session state the transition
\* returned, and done is true iff that next_state is Completed.
C9_NextStateAndDone ==
    /\ \A s \in SessionIds : \A i \in 1..Len(experiences[s]) :
          experiences[s][i].done = (experiences[s][i].next_state = [state |-> "Completed"])
    /\ \A c \in Conns : \A x \in ExperiencesOf(reqs[c].id) :
          /\ x.next_state = [state |-> DebugFmt(reqs[c].session.state)]
          /\ x.done = (reqs[c].session.state = Completed)

\* An experience with done = true is stored for a CashOut out of Evaluating.
C9_Witness ==
    \E c \in Conns : \E x \in ExperiencesOf(reqs[c].id) :
        /\ x.done
        /\ x.state = [state |-> "Evaluating"]
        /\ reqs[c].session.state = Completed

\* C11: a debit that fails a limit check answers 402 WALLET_LIMIT_EXCEEDED and
\* leaves the wallet (balance, daily_spent, daily_limit) as it was; a debit or
\* credit on an unknown wallet id answers NotFound and creates no wallet.
C11_FailedOperationChangesNothing ==
    /\ (wres.op = "debit" /\ wres.before # NoWallet /\ wres.resp.status # 200) =>
           /\ wres.resp = HttpError("WalletLimitExceeded")
           /\ wres.resp.status = 402 /\ wres.resp.code = "WALLET_LIMIT_EXCEEDED"
           /\ wallets[wres.wallet_id] = wres.before
    /\ (wres.op \in WalletOperationType /\ wres.before = NoWallet) =>
           /\ wres.resp = HttpError("NotFound")
           /\ wres.resp.status = 404
           /\ wres.wallet_id \notin DOMAIN wallets

\* A debit the balance covers was refused by the daily limit.
C11_Witness ==
    /\ wres.op = "debit" /\ wres.before # NoWallet
    /\ wres.resp.status = 402
    /\ wres.amount.amount > 0
    /\ wres.before.balance.amount >= wres.amount.amount
    /\ wres.before.daily_spent.amount + wres.amount.amount
          > wres.before.daily_limit.amount

\* C12: a credit of x on an existing wallet always succeeds with
\* balance' = balance + x; daily_spent and daily_limit are unchanged.
C12_CreditContract ==
    (wres.op = "credit" /\ wres.before # NoWallet) =>
        /\ wres.resp.status = 200
        /\ wres.resp.wallet = wallets[wres.wallet_id]
        /\ wres.resp.wallet.balance.amount
              = wres.before.balance.amount + wres.amount.amount
        /\ wres.resp.wallet.daily_spent = wres.before.daily_spent
        /\ wres.resp.wallet.daily_limit = wres.before.daily_limit

\* A positive credit on a wallet that had spent before.
C12_Witness ==
    /\ wres.op = "credit" /\ wres.before # NoWallet
    /\ wres.amount.amount > 0
    /\ wres.before.daily_spent.amount > 0
    /\ wres.resp.status = 200

\* C13: every wallet in the store has balance.amount >= 0 in every reachable
\* state, whatever amounts the create-wallet, debit and credit requests carry.
C13_BalanceNonNegative ==
    \A k \in DOMAIN wallets : wallets[k].balance.amount >= 0

\* C14: every wallet in the store has daily_spent.amount <= daily_limit.amount
\* in every reachable state, and daily_spent never decreases.
C14_DailySpentWithinLimit ==
    /\ [](\A k \in DOMAIN wallets :
            wallets[k].daily_spent.amount <= wallets[k].daily_limit.amount)
    /\ [][\A k \in DOMAIN wallets :
            /\ k \in DOMAIN wallets'
            /\ wallets'[k].daily_spent.amount >= wallets[k].daily_spent.amount]_vars

\* C16: an existing wallet is never removed and is changed only by a debit or
\* a credit on its id; a create-wallet request carrying its id does not
\* replace it.
C16_OnlyOperationsChangeWallet ==
    [][\A k \in DOMAIN wallets :
          /\ k \in DOMAIN wallets'
          /\ wallets'[k] # wallets[k] =>
                 /\ wres'.op \in WalletOperationType
                 /\ wres'.wallet_id = k]_vars

----------------------------------------------------------------------------
(* The wallet ledger with requests in every currency *)

\* Requests of SpecCurrency carry any currency and an amount of 0 or 1.
UnitMoney == [amount : { 0, 1 }, currency : Currency]

NextCurrency ==
    \/ \E id \in WalletIds, balance \in UnitMoney, daily_limit \in UnitMoney :
          CreateWallet(id, balance, daily_limit)
    \/ \E id \in WalletIds, operation \in WalletOperationType, amount \in UnitMoney :
          WalletOperation(id, operation, amount)

SpecCurrency == Init /\ [][NextCurrency]_vars

\* C15: in every reachable state the balance, daily_limit and daily_spent of a
\* wallet carry the same currency.
C15_OneCurrencyPerWallet ==
    \A k \in DOMAIN wallets :
        /\ wallets[k].daily_spent.currency = wallets[k].balance.currency
        /\ wallets[k].daily_limit.currency = wallets[k].balance.currency

----------------------------------------------------------------------------
(* Concurrent operations on one wallet *)

\* The amounts the requests of SpecWalletRace carry.
RaceMoney == [amount : { 1, 2 }, currency : WalletCurrencies]

\* The wallet is created once, before the first operation is received.
RaceCreateWallet(id, balance, daily_limit) ==
    /\ wallets = << >>
    /\ whist = << >>
    /\ LET wallet == [wallet_id |-> id, balance |-> balance,
                      daily_limit |-> daily_limit,
                      daily_spent |-> [amount |-> 0, currency |-> balance.currency]]
       IN /\ wallets' = Insert(wallets, id, wallet)
          /\ wres' = [op |-> "create", wallet_id |-> id, before |-> NoWallet,
                      resp |-> [status |-> 201, wallet |-> wallet]]
    /\ UNCHANGED whist
    /\ UNCHANGED sessionVars /\ UNCHANGED smVars /\ UNCHANGED limiterVars /\ UNCHANGED apiVars

\* wallet_operation_handler is entered: the request is extracted.
WalletOpCall(id, operation, amount) ==
    /\ Len(whist) < MaxWalletOps
    /\ whist' = Append(whist,
                       [wallet_id |-> id, operation |-> operation, amount |-> amount,
                        pc |-> "called", resp |-> NoResponse,
                        \* the operations answered before this one was received
                        after |-> { j \in 1..Len(whist) : whist[j].pc = "returned" }])
    /\ UNCHANGED << wallets, wres >>
    /\ UNCHANGED sessionVars /\ UNCHANGED smVars /\ UNCHANGED limiterVars /\ UNCHANGED apiVars

\* Mutant of WalletUnderLock: the operation works on the wallet as created.
WalletUnderLock_Stale(i) ==
    IF wres.op = "create" THEN Insert(<< >>, wres.wallet_id, wres.resp.wallet)
    ELSE << >>

\* self.inner.lock(): the map the operation reads and writes, held from the
\* lookup to the clone of the result.
WalletUnderLock(i) == wallets

\* wallet_operation_handler: Ok(Json(..)) or the error through `?`
OperationResponse(out) ==
    IF out.ok THEN [status |-> 200, wallet |-> out.wallet] ELSE HttpError(out.err)

\* apply_operation of request i runs, from taking the lock to releasing it.
WalletOpApply(i) ==
    /\ whist[i].pc = "called"
    /\ LET out == apply_operation(WalletUnderLock(i), whist[i].wallet_id,
                                  whist[i].operation, whist[i].amount)
       IN /\ wallets' = out.store
          /\ whist' = [whist EXCEPT ![i].pc = "applied",
                                    ![i].resp = OperationResponse(out)]
    /\ UNCHANGED wres
    /\ UNCHANGED sessionVars /\ UNCHANGED smVars /\ UNCHANGED limiterVars /\ UNCHANGED apiVars

\* The response of request i is sent.
WalletOpReturn(i) ==
    /\ whist[i].pc = "applied"
    /\ whist' = [whist EXCEPT ![i].pc = "returned"]
    /\ UNCHANGED << wallets, wres >>
    /\ UNCHANGED sessionVars /\ UNCHANGED smVars /\ UNCHANGED limiterVars /\ UNCHANGED apiVars

NextWalletRace ==
    \/ \E id \in WalletIds, balance \in RaceMoney, daily_limit \in RaceMoney :
          RaceCreateWallet(id, balance, daily_limit)
    \/ \E id \in WalletIds, operation \in WalletOperationType, amount \in RaceMoney :
          WalletOpCall(id, operation, amount)
    \/ \E i \in 1..Len(whist) : WalletOpApply(i)
    \/ \E i \in 1..Len(whist) : WalletOpReturn(i)

SpecWalletRace == Init /\ [][NextWalletRace]_vars

\* The store the operations started from.
InitialStore ==
    IF wres.op = "create" THEN Insert(<< >>, wres.wallet_id, wres.resp.wallet)
    ELSE << >>

\* The operations that have taken effect.
Applied == { i \in 1..Len(whist) : whist[i].pc # "called" }

\* The sequential orders of the operations that have taken effect which keep
\* an operation answered before another was received ahead of it.
Orders ==
    { o \in [1..Cardinality(Applied) -> Applied] :
        /\ \A a, b \in DOMAIN o : a # b => o[a] # o[b]
        /\ \A a, b \in DOMAIN o : o[a] \in whist[o[b]].after => a < b }

\* Running the operations one after the other in the order o, from position k
\* and the store given, yields the responses recorded and the current store.
RECURSIVE Replay(_, _, _)
Replay(store, o, k) ==
    IF k > Len(o) THEN store = wallets
    ELSE LET op == whist[o[k]]
             out == apply_operation(store, op.wallet_id, op.operation, op.amount)
         IN /\ OperationResponse(out) = op.resp
            /\ Replay(out.store, o, k + 1)

\* C17: concurrent debits and credits on one wallet are linearisable: the
\* stored wallet and every returned snapshot are those of some sequential
\* order of the same operations.
C17_WalletOperationsLinearisable ==
    \E o \in Orders : Replay(InitialStore, o, 1)

\* Two debits overlapped, each within the limits of the wallet as created:
\* one succeeded and the other was refused.
C17_Witness ==
    /\ Len(whist) >= 2
    /\ whist[1].operation = "debit" /\ whist[2].operation = "debit"
    /\ whist[2].after = {}
    /\ whist[1].resp.status = 200 /\ whist[2].resp.status = 402
    /\ apply_operation(InitialStore, whist[2].wallet_id, "debit", whist[2].amount).ok

----------------------------------------------------------------------------
(* The rate limiter *)

Keys == { "Bearer k1", "anon" }   \* the Authorization header values, or "anon"
Window == WindowSecs * TicksPerSec \* RateLimiter.window, in ticks

\* Mutant of check: the limit is compared with the count of every key.
check_AnyKeyOverLimit(table, key, t) ==
    LET g == IF key \in DOMAIN table THEN table
             ELSE Insert(table, key, [start |-> t, count |-> 0])
        entry == g[key]
    IN IF t - entry.start >= Window
       THEN [ok |-> TRUE, table |-> [g EXCEPT ![key] = [start |-> t, count |-> 1]]]
       ELSE IF \E k \in DOMAIN g : g[k].count >= max_requests
       THEN [ok |-> FALSE, table |-> g]
       ELSE [ok |-> TRUE, table |-> [g EXCEPT ![key].count = @ + 1]]

\* Mutant of check: an allowed call inside the window restarts the window.
check_SlidingWindow(table, key, t) ==
    LET g == IF key \in DOMAIN table THEN table
             ELSE Insert(table, key, [start |-> t, count |-> 0])
        entry == g[key]
    IN IF t - entry.start >= Window
       THEN [ok |-> TRUE, table |-> [g EXCEPT ![key] = [start |-> t, count |-> 1]]]
       ELSE IF entry.count >= max_requests
       THEN [ok |-> FALSE, table |-> g]
       ELSE [ok |-> TRUE,
             table |-> [g EXCEPT ![key] = [start |-> t, count |-> entry.count + 1]]]

\* Mutant of check: the count is read before the lock is taken, so a call
\* that is allowed stores the count of a table it no longer sees.
check_StaleCount(table, key, t) ==
    LET g == IF key \in DOMAIN table THEN table
             ELSE Insert(table, key, [start |-> t, count |-> 0])
        entry == g[key]
    IN IF t - entry.start >= Window
       THEN [ok |-> TRUE, table |-> [g EXCEPT ![key] = [start |-> t, count |-> 1]]]
       ELSE IF entry.count >= max_requests
       THEN [ok |-> FALSE, table |-> g]
       ELSE [ok |-> TRUE, table |-> [g EXCEPT ![key].count = 1]]

\* RateLimiter::check at clock reading t, under the table's write lock: the
\* result and the table after it.
check(table, key, t) ==
    LET g == IF key \in DOMAIN table THEN table
             ELSE Insert(table, key, [start |-> t, count |-> 0])
        entry == g[key]
    IN IF t - entry.start >= Window
       THEN [ok |-> TRUE, table |-> [g EXCEPT ![key] = [start |-> t, count |-> 1]]]
       ELSE IF entry.count >= max_requests
       THEN [ok |-> FALSE, table |-> g]
       ELSE [ok |-> TRUE, table |-> [g EXCEPT ![key].count = @ + 1]]

\* Mutant of retry_after_seconds: the time left is not cut to whole seconds.
retry_after_seconds_Ticks(table, key, t) ==
    IF key \in DOMAIN table /\ table[key].count >= max_requests
    THEN LET elapsed == t - table[key].start
         IN IF elapsed < Window
            THEN LET left == Window - elapsed
                 IN IF left > 1 THEN left ELSE 1
            ELSE 1
    ELSE 1

\* RateLimiter::retry_after_seconds at clock reading t
retry_after_seconds(table, key, t) ==
    IF key \in DOMAIN table /\ table[key].count >= max_requests
    THEN LET elapsed == t - table[key].start
         IN IF elapsed < Window
            THEN LET left == WindowSecs - (elapsed \div TicksPerSec)
                 IN IF left > 1 THEN left ELSE 1
            ELSE 1
    ELSE 1

\* AppState::with_config: the limiter is built with the configured limit.
WithConfig(rpm) ==
    /\ max_requests = DefaultRpm
    /\ llog = << >>
    /\ \A c \in Conns : lreqs[c].pc = "idle"
    /\ max_requests' = rpm
    /\ UNCHANGED << limiter, now, lreqs, llog >>
    /\ UNCHANGED sessionVars /\ UNCHANGED walletVars /\ UNCHANGED smVars
    /\ UNCHANGED apiVars

\* Time passes.
Tick ==
    /\ now < MaxTime
    /\ now' = now + 1
    /\ UNCHANGED << limiter, max_requests, lreqs, llog >>
    /\ UNCHANGED sessionVars /\ UNCHANGED walletVars /\ UNCHANGED smVars
    /\ UNCHANGED apiVars

Checking == { c \in Conns : lreqs[c].pc \in { "called", "denied" } }

\* rate_limit_middleware is entered on connection c: the key is the
\* Authorization header value, or "anon".
MwCall(c, key) ==
    /\ c \notin Checking
    /\ \A d \in Conns : d < c => d \in Checking
    /\ Len(llog) + Cardinality({ d \in Conns : lreqs[d].pc = "called" }) < MaxChecks
    /\ lreqs' = [lreqs EXCEPT ![c] = [key |-> key, pc |-> "called",
                                      ok |-> FALSE, retry |-> 0]]
    /\ UNCHANGED << limiter, max_requests, now, llog >>
    /\ UNCHANGED sessionVars /\ UNCHANGED walletVars /\ UNCHANGED smVars
    /\ UNCHANGED apiVars

NoEntry == [count |-> 0]

\* state.rate_limiter.check(&key): allowed requests go on to the handler.
MwCheck(c) ==
    /\ lreqs[c].pc = "called"
    /\ LET key == lreqs[c].key
           out == check(limiter, key, now)
       IN /\ limiter' = out.table
          /\ lreqs' = [lreqs EXCEPT ![c].ok = out.ok,
                                    ![c].pc = IF out.ok THEN "passed" ELSE "denied"]
          /\ llog' = Append(llog,
                            [key |-> key, at |-> now, ok |-> out.ok,
                             before |-> IF key \in DOMAIN limiter THEN limiter[key]
                                        ELSE NoEntry,
                             after |-> out.table[key]])
    /\ UNCHANGED << max_requests, now >>
    /\ UNCHANGED sessionVars /\ UNCHANGED walletVars /\ UNCHANGED smVars
    /\ UNCHANGED apiVars

\* A denied request: retry_after_seconds, then 429 with Retry-After.
MwRetryAfter(c) ==
    /\ lreqs[c].pc = "denied"
    /\ lreqs' = [lreqs EXCEPT ![c].pc = "limited",
                              ![c].retry = retry_after_seconds(limiter, lreqs[c].key, now)]
    /\ UNCHANGED << limiter, max_requests, now, llog >>
    /\ UNCHANGED sessionVars /\ UNCHANGED walletVars /\ UNCHANGED smVars
    /\ UNCHANGED apiVars

NextLimiter ==
    \/ \E rpm \in 0..MaxRpm : WithConfig(rpm)
    \/ Tick
    \/ \E c \in Conns, key \in Keys : MwCall(c, key)
    \/ \E c \in Conns : MwCheck(c)
    \/ \E c \in Conns : MwRetryAfter(c)

SpecLimiter == Init /\ [][NextLimiter]_vars

\* The calls of check before call i that were allowed in the window of call i.
AllowedBefore(i) ==
    { j \in 1..(i - 1) :
        /\ llog[j].key = llog[i].key
        /\ llog[j].after.start = llog[i].after.start
        /\ llog[j].ok }

\* The calls of check for key k allowed in the window the table holds for k.
AllowedInWindow(k) ==
    { i \in 1..Len(llog) :
        /\ llog[i].key = k
        /\ llog[i].after.start = limiter[k].start
        /\ llog[i].ok }

\* C18: for any key and any configured max_requests, a call of check lies in
\* the window it is counted in, and it returns true exactly when fewer than
\* max_requests earlier calls of that window returned true: the first
\* max_requests calls of a window are allowed, every further one is denied.
C18_WindowAdmitsAtMostMax ==
    \A i \in 1..Len(llog) :
        /\ llog[i].after.start <= llog[i].at
        /\ llog[i].at - llog[i].after.start < Window
        /\ llog[i].ok <=> (Cardinality(AllowedBefore(i)) < max_requests)

\* C19: the window is fixed: a check inside the window, allowed or denied,
\* leaves window_start alone, and a check made at now - window_start >= window
\* resets the entry to (now, 1) and returns true.
C19_FixedWindow ==
    \A i \in 1..Len(llog) :
        LET e == llog[i]
        IN /\ (e.before # NoEntry /\ e.at - e.before.start < Window) =>
                 e.after.start = e.before.start
           /\ (e.before # NoEntry /\ e.at - e.before.start >= Window) =>
                 /\ e.ok
                 /\ e.after = [start |-> e.at, count |-> 1]

\* A key was denied and, exactly one window length after its window started,
\* allowed again.
C19_Witness ==
    \E i, j \in 1..Len(llog) :
        /\ i < j
        /\ llog[i].key = llog[j].key
        /\ ~llog[i].ok
        /\ llog[j].before.start = llog[i].after.start
        /\ llog[j].at - llog[j].before.start = Window
        /\ llog[j].ok
        /\ llog[j].after = [start |-> llog[j].at, count |-> 1]

----------------------------------------------------------------------------
(* Authentication *)

\* Strings are sequences of characters, so that trimming and prefix tests are
\* computed as the code computes them.
\* auth.rs: the prefix parse_bearer_token accepts
Prefix == << "B", "e", "a", "r", "e", "r", " " >>
\* auth.rs: the prefix validate_token grants Admin on
AdminPrefix == << "a", "d", "m", "i", "n", ":" >>
\* server.rs: the rate-limit key of a request without Authorization header
Anon == << "a", "n", "o", "n" >>
TokK1 == << "k", "1" >>
TokK2 == << "k", "2" >>
TokAdminK == << "a", "d", "m", "i", "n", ":", "k" >>
TokAdminOnly == << "a", "d", "m", "i", "n", ":" >>
TokAdminWord == << "a", "d", "m", "i", "n" >>
HdrBearerK1 == << "B", "e", "a", "r", "e", "r", " ", "k", "1" >>
HdrBearerWideK1 == << "B", "e", "a", "r", "e", "r", " ", " ", "k", "1" >>
HdrBearerK1Sp == << "B", "e", "a", "r", "e", "r", " ", "k", "1", " " >>
HdrBearerK2 == << "B", "e", "a", "r", "e", "r", " ", "k", "2" >>
HdrBearerAdminK == << "B", "e", "a", "r", "e", "r", " ", "a", "d", "m", "i", "n", ":", "k" >>
HdrBasicK1 == << "B", "a", "s", "i", "c", " ", "k", "1" >>
HdrBearerOnly == << "B", "e", "a", "r", "e", "r", " " >>
HdrLowerK1 == << "b", "e", "a", "r", "e", "r", " ", "k", "1" >>
HdrEmpty == << >>

Whitespace == { " " }

\* str::trim_start / str::trim_end / str::trim
RECURSIVE TrimStart(_)
TrimStart(s) ==
    IF s # << >> /\ Head(s) \in Whitespace THEN TrimStart(Tail(s)) ELSE s
RECURSIVE TrimEnd(_)
TrimEnd(s) ==
    IF s # << >> /\ s[Len(s)] \in Whitespace THEN TrimEnd(SubSeq(s, 1, Len(s) - 1))
    ELSE s
Trim(s) == TrimEnd(TrimStart(s))

\* str::starts_with
StartsWith(s, p) == Len(s) >= Len(p) /\ SubSeq(s, 1, Len(p)) = p

\* auth.rs: parse_bearer_token
parse_bearer_token(header_value) ==
    IF header_value = None THEN None
    ELSE LET v == Trim(header_value[1])
         IN IF StartsWith(v, Prefix)
            THEN LET token == Trim(SubSeq(v, Len(Prefix) + 1, Len(v)))
                 IN IF token = << >> THEN None ELSE Some(token)
            ELSE None

\* Mutant of validate_token: the role is taken from the prefix before the
\* token is looked up in the key set.
validate_token_RoleBeforeLookup(token, keys) ==
    IF token = << >> THEN "InvalidToken"
    ELSE IF StartsWith(token, AdminPrefix) THEN "Admin"
    ELSE IF keys # {} /\ token \notin keys THEN "Unauthorized"
    ELSE "User"

\* auth.rs: validate_token; the result is the error kind or the role
validate_token(token, keys) ==
    IF token = << >> THEN "InvalidToken"
    ELSE IF keys # {} /\ token \notin keys THEN "Unauthorized"
    ELSE IF StartsWith(token, AdminPrefix) THEN "Admin"
    ELSE "User"

Roles == { "Admin", "User" }

\* auth.rs: role_allowed
role_allowed(required, user_role) ==
    IF required = "Admin" THEN user_role = "Admin" ELSE TRUE

\* The header values, tokens and key sets the calls below are made with.
HeaderValues ==
    { None, Some(HdrBearerK1), Some(HdrBearerWideK1), Some(HdrBearerK1Sp),
      Some(HdrBearerAdminK), Some(HdrBasicK1), Some(HdrBearerOnly),
      Some(HdrLowerK1), Some(HdrEmpty) }
Tokens == { << >>, TokK1, TokK2, TokAdminK, TokAdminOnly, TokAdminWord }
KeySets == SUBSET { TokK1, TokAdminK, TokAdminWord }

\* A call of parse_bearer_token
ParseCall(h) ==
    /\ vres' = [vres EXCEPT !.header = h, !.parsed = parse_bearer_token(h)]
    /\ UNCHANGED << api_keys, hreqs, cres, gres, listed >> /\ UNCHANGED obsVars
    /\ UNCHANGED sessionVars /\ UNCHANGED walletVars /\ UNCHANGED smVars
    /\ UNCHANGED limiterVars

\* A call of validate_token
ValidateCall(t, keys) ==
    /\ vres' = [vres EXCEPT !.token = t, !.keys = keys,
                            !.result = validate_token(t, keys)]
    /\ UNCHANGED << api_keys, hreqs, cres, gres, listed >> /\ UNCHANGED obsVars
    /\ UNCHANGED sessionVars /\ UNCHANGED walletVars /\ UNCHANGED smVars
    /\ UNCHANGED limiterVars

NextAuth ==
    \/ \E h \in HeaderValues : ParseCall(h)
    \/ \E t \in Tokens, keys \in KeySets : ValidateCall(t, keys)

SpecAuth == Init /\ [][NextAuth]_vars

\* C25: validate_token returns InvalidToken for the empty token; otherwise
\* Unauthorized when the key set is non-empty and does not hold the token;
\* otherwise Admin when the token starts with "admin:" and User when not. In
\* dev mode every non-empty token is accepted, and with a non-empty key set
\* Admin is granted only to a member of the set.
C25_ValidateToken ==
    vres.result # "none" =>
        /\ vres.token = << >> => vres.result = "InvalidToken"
        /\ (vres.token # << >> /\ vres.keys # {} /\ vres.token \notin vres.keys) =>
              vres.result = "Unauthorized"
        /\ (vres.token # << >> /\ (vres.keys = {} \/ vres.token \in vres.keys)) =>
              vres.result = IF StartsWith(vres.token, AdminPrefix) THEN "Admin"
                            ELSE "User"
        /\ (vres.keys = {} /\ vres.token # << >>) => vres.result \in Roles
        /\ (vres.keys # {} /\ vres.result = "Admin") => vres.token \in vres.keys

\* A token with the admin prefix that is not in the non-empty key set was
\* refused.
C25_Witness ==
    /\ vres.token = TokAdminOnly
    /\ vres.keys = { TokK1, TokAdminK }
    /\ vres.result = "Unauthorized"

----------------------------------------------------------------------------
(* Requests to the protected endpoints: auth_middleware is the outer layer  *)
(* (added last with route_layer), rate_limit_middleware the inner one, then *)
(* the handler.                                                             *)

\* The Authorization header values requests arrive with. Leading and trailing
\* blanks never reach the server, inner ones do.
HttpHeaders ==
    { None, Some(HdrBearerK1), Some(HdrBearerWideK1), Some(HdrBearerK2),
      Some(HdrBearerAdminK), Some(HdrBasicK1) }
Endpoints == { "sessions", "metrics" }
\* The non-empty key set the server may be configured with.
ConfiguredKeys == { TokK1, TokAdminK }

\* ErrorResponse::unauthorized with 401
Unauthorized == [status |-> 401, code |-> "UNAUTHORIZED"]
\* metrics_handler: ErrorCode::Unauthorized with 403
Forbidden == [status |-> 403, code |-> "UNAUTHORIZED"]

\* AppState::with_config: API_KEYS names a non-empty key set.
WithApiKeys(keys) ==
    /\ api_keys = {}
    /\ keys # {}
    /\ \A c \in Conns : hreqs[c].pc = "idle"
    /\ api_keys' = keys
    /\ UNCHANGED << hreqs, vres, cres, gres, listed >> /\ UNCHANGED obsVars
    /\ UNCHANGED sessionVars /\ UNCHANGED walletVars /\ UNCHANGED smVars
    /\ UNCHANGED limiterVars

HttpCount == hreqs[1].n + hreqs[2].n

\* A request to a protected endpoint arrives on connection c.
HttpCall(c, endpoint, header) ==
    /\ hreqs[c].pc \in { "idle", "done" }
    /\ \A d \in Conns : d < c => hreqs[d].pc \notin { "idle", "done" }
    /\ HttpCount < MaxHttpReqs
    /\ hreqs' = [hreqs EXCEPT ![c] = [IdleHttp EXCEPT !.endpoint = endpoint,
                                                      !.header = header,
                                                      !.pc = "auth",
                                                      !.n = hreqs[c].n + 1]]
    /\ lreqs' = [lreqs EXCEPT ![c] = IdleCheck]
    /\ UNCHANGED << limiter, max_requests, now, llog >>
    /\ UNCHANGED << api_keys, vres, cres, gres, listed >> /\ UNCHANGED obsVars
    /\ UNCHANGED sessionVars /\ UNCHANGED walletVars /\ UNCHANGED smVars

\* rate_limit_middleware: the key is the header value, or "anon"
RateLimitKey(header) == IF header = None THEN Anon ELSE header[1]

\* Mutant of HttpAuth: the token is parsed but not validated.
HttpAuth_NoValidation(c) ==
    /\ hreqs[c].pc = "auth"
    /\ LET token == parse_bearer_token(hreqs[c].header)
       IN IF token = None
          THEN /\ hreqs' = [hreqs EXCEPT ![c].pc = "done", ![c].resp = Unauthorized]
               /\ UNCHANGED lreqs
          ELSE /\ hreqs' = [hreqs EXCEPT ![c].pc = "rate", ![c].token = token]
               /\ lreqs' = [lreqs EXCEPT ![c] =
                              [key |-> RateLimitKey(hreqs[c].header), pc |-> "called",
                               ok |-> FALSE, retry |-> 0]]
    /\ UNCHANGED << limiter, max_requests, now, llog >>
    /\ UNCHANGED << api_keys, vres, cres, gres, listed >> /\ UNCHANGED obsVars
    /\ UNCHANGED sessionVars /\ UNCHANGED walletVars /\ UNCHANGED smVars

\* auth_middleware: parse_bearer_token, validate_token; 401 on either failure,
\* otherwise next.run, which enters rate_limit_middleware.
HttpAuth(c) ==
    /\ hreqs[c].pc = "auth"
    /\ LET token == parse_bearer_token(hreqs[c].header)
       IN IF token = None
          THEN /\ hreqs' = [hreqs EXCEPT ![c].pc = "done", ![c].resp = Unauthorized]
               /\ UNCHANGED lreqs
          ELSE IF validate_token(token[1], api_keys) \notin Roles
          THEN /\ hreqs' = [hreqs EXCEPT ![c].pc = "done", ![c].resp = Unauthorized,
                                         ![c].token = token]
               /\ UNCHANGED lreqs
          ELSE /\ hreqs' = [hreqs EXCEPT ![c].pc = "rate", ![c].token = token]
               /\ lreqs' = [lreqs EXCEPT ![c] =
                              [key |-> RateLimitKey(hreqs[c].header), pc |-> "called",
                               ok |-> FALSE, retry |-> 0]]
    /\ UNCHANGED << limiter, max_requests, now, llog >>
    /\ UNCHANGED << api_keys, vres, cres, gres, listed >> /\ UNCHANGED obsVars
    /\ UNCHANGED sessionVars /\ UNCHANGED walletVars /\ UNCHANGED smVars

\* rate_limit_middleware, denied: 429 RATE_LIMIT with the Retry-After header.
HttpLimited(c) ==
    /\ hreqs[c].pc = "rate"
    /\ lreqs[c].pc = "limited"
    /\ hreqs' = [hreqs EXCEPT ![c].pc = "done",
                              ![c].resp = [status |-> 429, code |-> "RATE_LIMIT",
                                           retry_after |-> lreqs[c].retry]]
    /\ UNCHANGED << api_keys, vres, cres, gres, listed >> /\ UNCHANGED obsVars
    /\ UNCHANGED sessionVars /\ UNCHANGED walletVars /\ UNCHANGED smVars
    /\ UNCHANGED limiterVars

\* Mutant of metrics_handler: the role is tested with role_allowed(User, role).
metrics_handler_AnyRole(header, keys, snapshot) ==
    LET token == parse_bearer_token(header)
    IN IF token = None THEN Unauthorized
       ELSE LET role == validate_token(token[1], keys)
            IN IF role \notin Roles THEN Unauthorized
               ELSE IF ~role_allowed("User", role) THEN Forbidden
               ELSE [status |-> 200, snapshot |-> snapshot]

\* metrics_handler: the response, given the header, the key set and the
\* counters read.
metrics_handler(header, keys, snapshot) ==
    LET token == parse_bearer_token(header)
    IN IF token = None THEN Unauthorized
       ELSE LET role == validate_token(token[1], keys)
            IN IF role \notin Roles THEN Unauthorized
               ELSE IF role # "Admin" THEN Forbidden
               ELSE [status |-> 200, snapshot |-> snapshot]

\* The handler of an admitted request runs: create_session_handler or
\* metrics_handler.
HttpHandle(c) ==
    /\ hreqs[c].pc = "rate"
    /\ lreqs[c].pc = "passed"
    /\ \/ /\ hreqs[c].endpoint = "sessions"
          /\ \E g \in GameIds :
                LET sid == Len(sessions) + 1
                IN /\ sessions' = Append(sessions,
                          [session_id |-> sid, game_id |-> g, state |-> Initialized,
                           total_spins |-> 0, total_payout |-> 0])
                   /\ sessions_created' = sessions_created + 1
                   /\ cres' = Append(cres, [game_id |-> g,
                                            resp |-> [status |-> 201, session_id |-> sid,
                                                      state |-> Initialized]])
                   /\ hreqs' = [hreqs EXCEPT ![c].pc = "done",
                                  ![c].resp = [status |-> 201, session_id |-> sid,
                                               state |-> Initialized]]
          /\ UNCHANGED << creating, reqs, reqCount, succeeded, events, experiences,
                          sessions_completed, sessions_playing >>
          /\ UNCHANGED walletVars
       \/ /\ hreqs[c].endpoint = "metrics"
          /\ hreqs' = [hreqs EXCEPT ![c].pc = "done",
                         ![c].resp = metrics_handler(hreqs[c].header, api_keys,
                                        [sessions_created |-> sessions_created,
                                         sessions_completed |-> sessions_completed,
                                         sessions_playing |-> sessions_playing])]
          /\ UNCHANGED cres
          /\ UNCHANGED sessionVars /\ UNCHANGED walletVars
    /\ UNCHANGED << api_keys, vres, gres, listed >> /\ UNCHANGED obsVars
    /\ UNCHANGED smVars /\ UNCHANGED limiterVars

NextHttp ==
    \/ \E rpm \in 0..MaxRpm : WithConfig(rpm)
    \/ WithApiKeys(ConfiguredKeys)
    \/ \E c \in Conns, endpoint \in Endpoints, header \in HttpHeaders :
          HttpCall(c, endpoint, header)
    \/ \E c \in Conns : HttpAuth(c)
    \/ \E c \in Conns : MwCheck(c)
    \/ \E c \in Conns : MwRetryAfter(c)
    \/ \E c \in Conns : HttpLimited(c)
    \/ \E c \in Conns : HttpHandle(c)

SpecHttp == Init /\ [][NextHttp]_vars

\* The token a rate-limit key authenticates as.
TokenOf(key) == parse_bearer_token(Some(key))

\* C21: rate limiting is per bearer token: two requests that authenticate with
\* the same token are counted against the same entry, and at one clock reading
\* (hence inside one window) a token is admitted at most max_requests times.
C21_OneEntryPerToken ==
    /\ \A i, j \in 1..Len(llog) :
          TokenOf(llog[i].key) = TokenOf(llog[j].key) => llog[i].key = llog[j].key
    /\ \A i \in 1..Len(llog) :
          Cardinality({ j \in 1..Len(llog) :
                          /\ TokenOf(llog[j].key) = TokenOf(llog[i].key)
                          /\ llog[j].at = llog[i].at
                          /\ llog[j].ok }) <= max_requests

\* C22: the rate-limit check comes before token validation: every answered
\* request was counted by the limiter, and a request is answered 401 only
\* while its key is not over the limit.
C22_RateLimitBeforeValidation ==
    /\ [](\A c \in Conns :
            hreqs[c].pc = "done" => lreqs[c].pc \in { "passed", "limited" })
    /\ [][\A c \in Conns :
            (hreqs[c].pc = "auth" /\ hreqs'[c].resp = Unauthorized) =>
                LET key == RateLimitKey(hreqs[c].header)
                IN ~(key \in DOMAIN limiter /\ limiter[key].count >= max_requests)]_vars

\* The request on connection c cannot be authenticated: no header, no Bearer
\* token, or a token validate_token rejects.
Unauthenticated(r) ==
    LET token == parse_bearer_token(r.header)
    IN token = None \/ validate_token(token[1], api_keys) \notin Roles

DomainUnchanged ==
    UNCHANGED << sessions, creating, events, experiences, wallets,
                 sessions_created, sessions_completed, sessions_playing >>

\* C26: the metrics endpoint returns the snapshot only to a caller whose
\* validated role is Admin; an admitted caller with role User gets 403, a
\* caller that cannot be authenticated gets 401; no metrics request changes a
\* counter or a store.
C26_MetricsAdminOnly ==
    /\ [](\A c \in Conns :
            (hreqs[c].endpoint = "metrics" /\ hreqs[c].pc = "done") =>
                LET r == hreqs[c]
                IN /\ Unauthenticated(r) <=> r.resp = Unauthorized
                   /\ r.resp.status = 200 <=>
                         (~Unauthenticated(r)
                          /\ validate_token(r.token[1], api_keys) = "Admin"
                          /\ lreqs[c].pc = "passed")
                   /\ r.resp.status = 403 <=>
                         (~Unauthenticated(r)
                          /\ validate_token(r.token[1], api_keys) = "User"
                          /\ lreqs[c].pc = "passed")
                   /\ r.resp.status \in { 200, 401, 403, 429 })
    /\ [][\A c \in Conns :
            (hreqs'[c] # hreqs[c] /\ hreqs'[c].endpoint = "metrics") =>
                DomainUnchanged]_vars

\* A caller with role User was refused the counters of a server that has
\* created a session.
C26_Witness ==
    \E c \in Conns :
        /\ hreqs[c].endpoint = "metrics" /\ hreqs[c].pc = "done"
        /\ hreqs[c].resp = Forbidden
        /\ api_keys # {}
        /\ sessions_created > 0

\* C27: on a protected endpoint a request that cannot be authenticated is
\* answered 401 UNAUTHORIZED before any domain work: no step of it changes a
\* session, wallet, event, experience or counter.
C27_UnauthenticatedChangesNothing ==
    /\ [](\A c \in Conns :
            (hreqs[c].pc \notin { "idle", "auth" } /\ Unauthenticated(hreqs[c])) =>
                /\ hreqs[c].pc = "done"
                /\ hreqs[c].resp = Unauthorized
                /\ hreqs[c].resp.status = 401
                /\ hreqs[c].resp.code = "UNAUTHORIZED")
    /\ [][\A c \in Conns :
            (hreqs'[c] # hreqs[c] /\ Unauthenticated(hreqs'[c])) =>
                DomainUnchanged]_vars

\* A create-session request with a token outside the configured key set was
\* answered 401 on a server that holds a session.
C27_Witness ==
    \E c \in Conns :
        /\ hreqs[c].endpoint = "sessions" /\ hreqs[c].pc = "done"
        /\ hreqs[c].header = Some(HdrBearerK2)
        /\ api_keys # {}
        /\ hreqs[c].resp = Unauthorized
        /\ Len(sessions) = 1

\* The entry of key k before call i of check: the one the latest earlier call
\* for k left, or none.
EntryBefore(i) ==
    LET earlier == { j \in 1..(i - 1) : llog[j].key = llog[i].key }
    IN IF earlier = {} THEN NoEntry
       ELSE llog[CHOOSE j \in earlier : \A h \in earlier : h <= j].after

\* The table that holds the entry e of key k and nothing else.
OnlyEntry(k, e) == IF e = NoEntry THEN << >> ELSE Insert(<< >>, k, e)

\* C23: distinct keys are independent: a call check(k) finds the entry the
\* latest earlier check(k) left, whatever calls for other keys came between,
\* its result and the entry it stores are those of check on a table holding
\* only the entry of k at the clock reading of the call, and it leaves every
\* other key's entry as it was.
C23_KeysIndependent ==
    /\ [](\A i \in 1..Len(llog) :
            LET e == llog[i]
                alone == check(OnlyEntry(e.key, EntryBefore(i)), e.key, e.at)
            IN /\ e.before = EntryBefore(i)
               /\ e.ok = alone.ok
               /\ e.after = alone.table[e.key])
    /\ [][Len(llog') > Len(llog) =>
            LET k == llog'[Len(llog')].key
            IN /\ DOMAIN limiter' = DOMAIN limiter \cup { k }
               /\ \A j \in DOMAIN limiter : j # k => limiter'[j] = limiter[j]]_vars

\* Two keys under a limit of one: the first key was admitted, then denied,
\* and at the same clock reading the second key was admitted.
C23_Witness ==
    /\ max_requests = 1
    /\ Len(llog) = 3
    /\ llog[1].key = llog[2].key /\ llog[3].key # llog[1].key
    /\ llog[1].ok /\ ~llog[2].ok /\ llog[3].ok
    /\ llog[3].at = llog[2].at
    /\ limiter[llog[1].key] = llog[2].after
    /\ limiter[llog[3].key].count = 1

----------------------------------------------------------------------------
(* Creating and getting sessions, next to play-actions on the first session *)

CreateIds == 1..MaxSessions   \* the ids create-session hands out, in this order
CreateGameIds == { 1, 2 }     \* the game ids create-session requests carry

PlayStartCreate(c, sid, a) == PlayStartUpTo(MaxCreatePlays, c, sid, a)

NextCreate ==
    \/ \E g \in CreateGameIds : CreateSessionAmong(CreateIds, g)
    \/ \E sid \in CreateIds : CreateSessionRecorded(sid)
    \/ \E id \in CreateIds : GetSession(id)
    \/ \E c \in Conns, sid \in SessionIds, a \in ActionTypes : PlayStartCreate(c, sid, a)
    \/ \E c \in Conns : PlayGetSession(c)
    \/ \E c \in Conns : PlayTransitionRead(c)
    \/ \E c \in Conns : PlayTransitionWrite(c)
    \/ \E c \in Conns : PlayMetrics(c)
    \/ \E c \in Conns : PlayEventInsert(c, TRUE)
    \/ \E c \in Conns : PlayExperienceInsert(c, TRUE)

SpecCreate == Init /\ [][NextCreate]_vars

\* A play-action request for session id has been made.
PlayedOn(id) == \E c \in Conns : reqs[c].pc # "idle" /\ reqs[c].sid = id

\* The record create-session call i stored.
CreatedRecord(i) ==
    [session_id |-> cres[i].resp.session_id, game_id |-> cres[i].game_id,
     state |-> Initialized, total_spins |-> 0, total_payout |-> 0]

\* C28: create-session stores a session with a fresh id, the requested
\* game_id and state Initialized and leaves every existing session as it was;
\* a get of the returned id made before any play-action on it returns exactly
\* that record.
C28_CreateThenGet ==
    /\ [](\A i, j \in 1..Len(cres) :
            i # j => cres[i].resp.session_id # cres[j].resp.session_id)
    /\ [][Len(cres') > Len(cres) =>
            LET i == Len(cres')
                sid == cres'[i].resp.session_id
            IN /\ sid \notin DOMAIN sessions
               /\ DOMAIN sessions' = DOMAIN sessions \cup { sid }
               /\ \A s \in DOMAIN sessions : sessions'[s] = sessions[s]
               /\ sessions'[sid] = [session_id |-> sid, game_id |-> cres'[i].game_id,
                                    state |-> Initialized, total_spins |-> 0,
                                    total_payout |-> 0]
               /\ cres'[i].resp = [status |-> 201, session_id |-> sid,
                                   state |-> Initialized]]_vars
    /\ [][gres' # gres =>
            \A i \in 1..Len(cres) :
                (cres[i].resp.session_id = gres'.id /\ ~PlayedOn(gres'.id)) =>
                    gres'.resp = [status |-> 200, session |-> CreatedRecord(i)]]_vars

\* The second session, created for the second game after the first session
\* had moved on to Playing, was got and is the record its creation stored,
\* and the first session is still Playing.
C28_Witness ==
    /\ Len(cres) = 2
    /\ cres[2].game_id = 2
    /\ gres.id = 2
    /\ gres.resp = [status |-> 200, session |-> CreatedRecord(2)]
    /\ sessions[1].state = Playing
    /\ sessions[1].game_id = 1
    /\ PlayedOn(1)

\* The play-actions that pass record_session_* in this step with their
\* session in state st.
Counted(st) ==
    { c \in Conns : /\ reqs[c].pc = "metrics"
                    /\ reqs'[c].pc = "event"
                    /\ reqs[c].session.state = st }

\* C29: the counters never decrease; sessions_created grows by one with each
\* create-session that completes, sessions_playing by one with each
\* play-action whose transition left its session Playing, sessions_completed
\* by one with each whose transition left it Completed, and by nothing else;
\* the state counted is the state the successful play-action answers with.
C29_CountersExact ==
    /\ [](sessions_created + Cardinality(creating) = Len(sessions))
    /\ [](\A c \in Conns :
            reqs[c].pc = "ok" => reqs[c].resp.session.state = reqs[c].session.state)
    /\ [][/\ sessions_created' >= sessions_created
          /\ sessions_playing' >= sessions_playing
          /\ sessions_completed' >= sessions_completed
          /\ sessions_created' = sessions_created + Cardinality(creating \ creating')
          /\ sessions_playing' = sessions_playing + Cardinality(Counted(Playing))
          /\ sessions_completed' = sessions_completed + Cardinality(Counted(Completed))
          /\ \A c \in Conns :
                (reqs'[c].pc = "ok" /\ reqs[c].pc # "ok") =>
                    reqs[c].pc \notin { "get", "ts_get", "ts_update", "metrics" }]_vars

\* Two play-actions that ran together on one session both left it Playing
\* and both were counted.
C29_Witness ==
    /\ reqs[1].pc \in { "event", "exp", "ok" }
    /\ reqs[2].pc \in { "event", "exp", "ok" }
    /\ ~reqs[1].alone /\ ~reqs[2].alone
    /\ reqs[1].sid = reqs[2].sid
    /\ reqs[1].session.state = Playing /\ reqs[2].session.state = Playing
    /\ sessions_playing = 2
    /\ sessions_completed = 0
    /\ sessions_created = 1

----------------------------------------------------------------------------
(* The in-memory experience store: insert_experience and list_by_session *)

\* The session ids experiences are inserted with; 0 is the nil uuid.
ListSessionIds == { 0, 1, 2 }
Stamps == { None } \cup { Some(t) : t \in 1..MaxStamp }

Stored == UNION { { experiences[s][i] : i \in 1..Len(experiences[s]) } :
                  s \in DOMAIN experiences }

\* An experience as the callers of the store build it.
ExperienceOf(id, session_id, created_at) ==
    [id |-> id, session_id |-> session_id,
     state |-> [state |-> "Playing"], action |-> [type |-> "Spin"],
     next_state |-> [state |-> "Evaluating"], done |-> FALSE,
     reward |-> id, created_at |-> created_at]

\* Mutant of insert_experience: the session id is not validated.
insert_experience_NoValidation(session_id, created_at) ==
    /\ Cardinality(Stored) < MaxExperiences
    /\ LET exp == ExperienceOf(Cardinality(Stored) + 1, session_id, created_at)
           valid == TRUE
       IN /\ experiences' =
                IF ~valid THEN experiences
                ELSE IF exp.session_id \in DOMAIN experiences
                THEN [experiences EXCEPT ![exp.session_id] = Append(@, exp)]
                ELSE Insert(experiences, exp.session_id, << exp >>)
          /\ ires' = IF valid
                     THEN [store |-> "experiences", ok |-> TRUE, record |-> exp]
                     ELSE [store |-> "experiences", ok |-> FALSE,
                           err |-> "InvalidSessionId", record |-> exp]
    /\ UNCHANGED << sessions, creating, reqs, reqCount, succeeded, events,
                    sessions_created, sessions_completed, sessions_playing >>
    /\ UNCHANGED << api_keys, hreqs, vres, cres, gres, listed, config, elisted,
                    exported >>
    /\ UNCHANGED walletVars /\ UNCHANGED smVars /\ UNCHANGED limiterVars

\* InMemoryStore::insert_experience: rejected for the nil session id,
\* otherwise pushed on the session's vector.
insert_experience(session_id, created_at) ==
    /\ Cardinality(Stored) < MaxExperiences
    /\ LET exp == ExperienceOf(Cardinality(Stored) + 1, session_id, created_at)
           valid == is_session_valid(exp)
       IN /\ experiences' =
                IF ~valid THEN experiences
                ELSE IF exp.session_id \in DOMAIN experiences
                THEN [experiences EXCEPT ![exp.session_id] = Append(@, exp)]
                ELSE Insert(experiences, exp.session_id, << exp >>)
          /\ ires' = IF valid
                     THEN [store |-> "experiences", ok |-> TRUE, record |-> exp]
                     ELSE [store |-> "experiences", ok |-> FALSE,
                           err |-> "InvalidSessionId", record |-> exp]
    /\ UNCHANGED << sessions, creating, reqs, reqCount, succeeded, events,
                    sessions_created, sessions_completed, sessions_playing >>
    /\ UNCHANGED << api_keys, hreqs, vres, cres, gres, listed, config, elisted,
                    exported >>
    /\ UNCHANGED walletVars /\ UNCHANGED smVars /\ UNCHANGED limiterVars

\* The comparator list_by_session sorts with.
by_created_at(a, b) ==
    IF a.created_at # None /\ b.created_at # None
    THEN IF a.created_at[1] < b.created_at[1] THEN "Less"
         ELSE IF a.created_at[1] > b.created_at[1] THEN "Greater"
         ELSE "Equal"
    ELSE IF a.created_at # None /\ b.created_at = None THEN "Less"
    ELSE IF a.created_at = None /\ b.created_at # None THEN "Greater"
    ELSE "Equal"

\* x put into the sorted sequence s behind everything that is not greater.
InsertSorted(s, x) ==
    LET greater == { i \in 1..Len(s) : by_created_at(x, s[i]) = "Less" }
        at == IF greater = {} THEN Len(s) + 1
              ELSE CHOOSE i \in greater : \A j \in greater : i <= j
    IN SubSeq(s, 1, at - 1) \o << x >> \o SubSeq(s, at, Len(s))

\* Vec::sort_by: a stable sort.
RECURSIVE sort_by(_)
sort_by(s) ==
    IF s = << >> THEN << >>
    ELSE InsertSorted(sort_by(SubSeq(s, 1, Len(s) - 1)), s[Len(s)])

\* InMemoryStore::list_by_session
list_by_session(store, session_id) ==
    sort_by(IF session_id \in DOMAIN store THEN store[session_id] ELSE << >>)

ListBySession(session_id) ==
    /\ listed' = [session_id |-> session_id,
                  out |-> list_by_session(experiences, session_id)]
    /\ UNCHANGED << api_keys, hreqs, vres, cres, gres >> /\ UNCHANGED obsVars
    /\ UNCHANGED sessionVars /\ UNCHANGED walletVars /\ UNCHANGED smVars
    /\ UNCHANGED limiterVars

NextList ==
    \/ \E s \in ListSessionIds, t \in Stamps : insert_experience(s, t)
    \/ \E s \in ListSessionIds : ListBySession(s)

SpecList == Init /\ [][NextList]_vars

\* C30: list_by_session returns the session's experiences with those that
\* have no created_at before those that have one, those with a created_at in
\* ascending order, and insertion order (the order of the ids handed out) kept
\* among those without created_at and among those with equal created_at.
C30_NoneFirst ==
    /\ \A i \in 1..Len(listed.out) : listed.out[i].session_id = listed.session_id
    /\ \A i, j \in 1..Len(listed.out) :
          i < j =>
             LET a == listed.out[i]
                 b == listed.out[j]
             IN /\ ~(a.created_at # None /\ b.created_at = None)
                /\ (a.created_at # None /\ b.created_at # None) =>
                      a.created_at[1] <= b.created_at[1]
                /\ a.created_at = b.created_at => a.id < b.id

----------------------------------------------------------------------------
(* The in-memory event store: insert and list_by_session *)

EventSessionIds == { 1, 2 }
\* The action values events are inserted with: the three gameplay actions, an
\* unknown type, and a value without a type field.
EventActions ==
    { [type |-> "PlaceBet"], [type |-> "Spin"], [type |-> "CashOut"],
      [type |-> "Bad"], [kind |-> "Spin"] }
\* Option<DateTime<Utc>>, in clock ticks since the epoch
EventStamps == { None } \cup { Some(t) : t \in 0..MaxEventStamp }

\* InMemoryEventStore::insert: bails on an invalid action type, pushes otherwise.
EventInsert(session_id, action, timestamp) ==
    /\ Len(events) < MaxEvents
    /\ LET event == [event_id |-> Len(events) + 1, session_id |-> session_id,
                     action |-> action, timestamp |-> timestamp, reward |-> None]
           valid == validate_action_type(event.action)
       IN /\ events' = IF valid THEN Append(events, event) ELSE events
          /\ ires' = [store |-> "events", ok |-> valid, record |-> event]
    /\ UNCHANGED << sessions, creating, reqs, reqCount, succeeded, experiences,
                    sessions_created, sessions_completed, sessions_playing >>
    /\ UNCHANGED << api_keys, hreqs, vres, cres, gres, listed, config, elisted,
                    exported >>
    /\ UNCHANGED walletVars /\ UNCHANGED smVars /\ UNCHANGED limiterVars

\* The key list_by_session sorts events by: t.timestamp(), the whole seconds
\* of the timestamp, 0 for a missing one.
timestamp_secs(e) ==
    IF e.timestamp = None THEN 0 ELSE e.timestamp[1] \div TicksPerSec

\* x put into the sorted sequence s behind everything whose key is not greater.
InsertByTimestamp(s, x) ==
    LET greater == { i \in 1..Len(s) : timestamp_secs(x) < timestamp_secs(s[i]) }
        at == IF greater = {} THEN Len(s) + 1
              ELSE CHOOSE i \in greater : \A j \in greater : i <= j
    IN SubSeq(s, 1, at - 1) \o << x >> \o SubSeq(s, at, Len(s))

\* Vec::sort_by with the comparator of the event store: a stable sort.
RECURSIVE sort_by_timestamp(_)
sort_by_timestamp(s) ==
    IF s = << >> THEN << >>
    ELSE InsertByTimestamp(sort_by_timestamp(SubSeq(s, 1, Len(s) - 1)), s[Len(s)])

\* InMemoryEventStore::list_by_session
events_list_by_session(store, session_id) ==
    sort_by_timestamp(SelectSeq(store, LAMBDA e : e.session_id = session_id))

EventList(session_id) ==
    /\ elisted' = [session_id |-> session_id, store |-> events,
                   out |-> events_list_by_session(events, session_id)]
    /\ UNCHANGED << api_keys, hreqs, vres, cres, gres, listed, config, ires,
                    exported >>
    /\ UNCHANGED sessionVars /\ UNCHANGED walletVars /\ UNCHANGED smVars
    /\ UNCHANGED limiterVars

NextEvents ==
    \/ \E s \in EventSessionIds, a \in EventActions, t \in EventStamps :
          EventInsert(s, a, t)
    \/ \E s \in EventSessionIds : EventList(s)

SpecEvents == Init /\ [][NextEvents]_vars

\* The timestamp of an event, a missing one counted as 0.
TimestampOrZero(e) == IF e.timestamp = None THEN 0 ELSE e.timestamp[1]

\* C31: list_by_session of the event store returns exactly the events inserted
\* for the session, in ascending order of timestamp with a missing timestamp
\* ordered as 0, events of equal timestamp in insertion order.
C31_EventsAscending ==
    elisted # NoList =>
        /\ { elisted.out[i] : i \in 1..Len(elisted.out) } =
              { elisted.store[i] : i \in { j \in 1..Len(elisted.store) :
                                            elisted.store[j].session_id
                                               = elisted.session_id } }
        /\ \A i, j \in 1..Len(elisted.out) :
              i < j =>
                 /\ TimestampOrZero(elisted.out[i]) <= TimestampOrZero(elisted.out[j])
                 /\ TimestampOrZero(elisted.out[i]) = TimestampOrZero(elisted.out[j])
                       => elisted.out[i].event_id < elisted.out[j].event_id

\* C32: the event store accepts an insert exactly when the action has a type
\* field equal to PlaceBet, Spin or CashOut; an accepted insert appends the
\* event, a rejected one returns an error and leaves the store unchanged;
\* every stored event has one of the three action types.
C32_InsertValidatesActionType ==
    /\ [](\A i \in 1..Len(events) :
            /\ "type" \in DOMAIN events[i].action
            /\ events[i].action.type \in { "PlaceBet", "Spin", "CashOut" })
    /\ [][(ires' # ires /\ ires'.store = "events") =>
            LET e == ires'.record
            IN /\ ires'.ok <=> (/\ "type" \in DOMAIN e.action
                                /\ e.action.type \in { "PlaceBet", "Spin", "CashOut" })
               /\ ires'.ok => events' = Append(events, e)
               /\ ~ires'.ok => events' = events]_vars

\* An insert without a type field was rejected by a store that holds an event.
C32_Witness ==
    /\ ires.store = "events"
    /\ ~ires.ok
    /\ "type" \notin DOMAIN ires.record.action
    /\ Len(events) = 1
    /\ events[1].action.type = "PlaceBet"

\* The vector the experience store holds for session s.
VecOf(store, s) == IF s \in DOMAIN store THEN store[s] ELSE << >>

\* C33: the experience store rejects an insert with the nil session id with
\* InvalidSessionId and stays as it was; any other insert appends the
\* experience to the vector of its own session and to no other; no stored
\* experience has the nil session id, and list_by_session returns experiences
\* of the asked session only.
C33_InsertValidatesSessionId ==
    /\ [](\A s \in DOMAIN experiences : \A i \in 1..Len(experiences[s]) :
            /\ experiences[s][i].session_id # 0
            /\ experiences[s][i].session_id = s)
    /\ [](\A i \in 1..Len(listed.out) : listed.out[i].session_id = listed.session_id)
    /\ [][(ires' # ires /\ ires'.store = "experiences") =>
            LET e == ires'.record
            IN IF e.session_id = 0
               THEN /\ ~ires'.ok
                    /\ ires'.err = "InvalidSessionId"
                    /\ experiences' = experiences
               ELSE /\ ires'.ok
                    /\ experiences'[e.session_id]
                          = Append(VecOf(experiences, e.session_id), e)
                    /\ \A s \in DOMAIN experiences' :
                          s # e.session_id =>
                              s \in DOMAIN experiences
                              /\ experiences'[s] = experiences[s]]_vars

\* An insert with the nil session id was rejected by a store that holds
\* experiences of two sessions, and the list of the second session has been
\* read.
C33_Witness ==
    /\ ires.store = "experiences"
    /\ ~ires.ok
    /\ ires.record.session_id = 0
    /\ Len(VecOf(experiences, 1)) = 1
    /\ Len(VecOf(experiences, 2)) = 1
    /\ listed.session_id = 2
    /\ Len(listed.out) = 1

----------------------------------------------------------------------------
(* RL export: export_experiences over the in-memory experience store *)

ExportSessionIds == { 1, 2 }
\* ExportParams.limit and ExportParams.offset are u32; 2147483647 stands for
\* the large ones.
ExportLimits == 0..MaxExperiences \cup { 10000, 10001, 2147483647 }
ExportOffsets == 0..(MaxExperiences + 1) \cup { 2147483647 }

\* ExportRecord::from(&Experience)
ExportRecord(exp) ==
    [id |-> exp.id, session_id |-> exp.session_id, state |-> exp.state,
     action |-> exp.action, reward |-> exp.reward, next_state |-> exp.next_state,
     done |-> exp.done, created_at |-> exp.created_at]

\* Mutant of export_experiences: the limit is not raised to 1.
export_experiences_NoLowerClamp(store, params) ==
    LET list == list_by_session(store, params.session_id)
        limit == Min(params.limit, 10000)
        offset == Min(params.offset, Len(list))
        start == offset
        end == Min(start + limit, Len(list))
    IN [ok |-> TRUE, list |-> list,
        experiences |-> [k \in 1..(end - start) |-> ExportRecord(list[start + k])]]

\* export::export_experiences (list.len() as u32 is list.len(): the vectors
\* here are far shorter than 2^32)
export_experiences(store, params) ==
    LET list == list_by_session(store, params.session_id)
        limit == Min(Max(params.limit, 1), 10000)
        offset == Min(params.offset, Len(list))
        start == offset
        end == Min(start + limit, Len(list))
    IN [ok |-> TRUE, list |-> list,
        experiences |-> [k \in 1..(end - start) |-> ExportRecord(list[start + k])]]

\* rl_export_handler: export_experiences on the query's session id, limit and
\* offset.
RlExport(session_id, limit, offset) ==
    /\ LET res == export_experiences(experiences,
                     [session_id |-> session_id, limit |-> limit, offset |-> offset])
       IN exported' = [session_id |-> session_id, limit |-> limit, offset |-> offset,
                       list |-> res.list, ok |-> res.ok,
                       experiences |-> res.experiences]
    /\ UNCHANGED << api_keys, hreqs, vres, cres, gres, listed, config, elisted, ires >>
    /\ UNCHANGED sessionVars /\ UNCHANGED walletVars /\ UNCHANGED smVars
    /\ UNCHANGED limiterVars

NextExport ==
    \/ \E s \in ExportSessionIds, t \in { None, Some(1) } : insert_experience(s, t)
    \/ \E s \in ExportSessionIds \cup { 3 }, limit \in ExportLimits,
          offset \in ExportOffsets : RlExport(s, limit, offset)

SpecExport == Init /\ [][NextExport]_vars

\* C34: for every limit and offset the export of a session whose ordered list
\* has length n succeeds and returns the window list[o .. min(o + l, n)] in
\* list order, with l the limit clamped to [1, 10000] and o the offset clamped
\* to [0, n]; for a session without experiences it returns the empty list.
C34_ExportWindow ==
    exported # NoExport =>
        LET list == exported.list
            n == Len(list)
            l == IF exported.limit < 1 THEN 1
                 ELSE IF exported.limit > 10000 THEN 10000 ELSE exported.limit
            o == IF exported.offset > n THEN n ELSE exported.offset
            hi == IF o + l < n THEN o + l ELSE n
        IN /\ exported.ok
           /\ \A i \in 1..n : list[i].session_id = exported.session_id
           /\ Len(exported.experiences) = hi - o
           /\ \A k \in 1..(hi - o) : exported.experiences[k] = list[o + k]
           /\ n = 0 => exported.experiences = << >>

\* The export of a session with three experiences with limit 0 and offset 1
\* returned the second experience of the ordered list, which is not the second
\* one inserted.
C34_Witness ==
    /\ exported.limit = 0
    /\ exported.offset = 1
    /\ Len(exported.list) = 3
    /\ Len(exported.experiences) = 1
    /\ exported.experiences[1] = exported.list[2]
    /\ exported.experiences[1].id # 2

----------------------------------------------------------------------------
(* Rewards of play-actions under a configured cost and likeness weight *)

ConfigCosts == { -1, 1 }        \* COST_PER_SPIN, in hundredths
ConfigWeights == { 3, 5 }       \* HUMAN_LIKENESS_WEIGHT, in tenths
RequestAmounts == { None, Some(0), Some(2) }
RequestLikeness == { None, Some(-5), Some(8), Some(15) }   \* in tenths

\* AppState::with_config: the server starts with the configured cost and weight.
WithRewardConfig(cost, weight) ==
    /\ reqCount = 0
    /\ config = DefaultConfig
    /\ config' = [cost_per_spin |-> cost, human_likeness_weight |-> weight]
    /\ UNCHANGED << api_keys, hreqs, vres, cres, gres, listed, elisted, ires,
                    exported >>
    /\ UNCHANGED sessionVars /\ UNCHANGED walletVars /\ UNCHANGED smVars
    /\ UNCHANGED limiterVars

PlayStartReward(c, sid, a, amount, human_likeness) ==
    PlayStartWith(MaxRewardReqs, c, sid, a, amount, human_likeness)

NextReward ==
    \/ \E cost \in ConfigCosts, weight \in ConfigWeights : WithRewardConfig(cost, weight)
    \/ \E g \in GameIds : CreateSession(g)
    \/ \E sid \in SessionIds : CreateSessionRecorded(sid)
    \/ \E c \in Conns, sid \in SessionIds, a \in ActionTypes,
          amount \in RequestAmounts, human_likeness \in RequestLikeness :
          PlayStartReward(c, sid, a, amount, human_likeness)
    \/ \E c \in Conns : PlayGetSession(c)
    \/ \E c \in Conns : PlayTransitionRead(c)
    \/ \E c \in Conns : PlayTransitionWrite(c)
    \/ \E c \in Conns : PlayMetrics(c)
    \/ \E c \in Conns : PlayEventInsert(c, TRUE)
    \/ \E c \in Conns : PlayExperienceInsert(c, TRUE)

SpecReward == Init /\ [][NextReward]_vars

\* The reward section 4.2 gives request r: payout and stake in whole units,
\* the result in hundredths.
StatedReward(r) ==
    LET payout == 0
        stake == IF r.action.amount = None THEN 0 ELSE r.action.amount[1]
        cost == IF config.cost_per_spin > 0 THEN config.cost_per_spin ELSE 0
        given == IF r.human_likeness = None THEN 5 ELSE r.human_likeness[1]
        likeness == IF given < 0 THEN 0 ELSE IF given > 10 THEN 10 ELSE given
        done == r.session.state = Completed
        completion_bonus == IF done /\ payout > 0 THEN 100 ELSE 0
    IN (payout - stake) * 100 - cost + likeness * config.human_likeness_weight
          + completion_bonus

\* C35: the event and the experience of a play-action carry the same reward,
\* (payout - stake) - max(0, cost_per_spin) + clamp(human_likeness, 0, 1) * W
\* + completion_bonus with W the human_likeness_weight of the running
\* configuration.
C35_RewardUsesConfiguredWeight ==
    \A c \in Conns :
        reqs[c].pc = "ok" =>
            /\ \A i \in 1..Len(events) :
                  events[i].event_id = reqs[c].id =>
                      events[i].reward = Some(StatedReward(reqs[c]))
            /\ \A x \in ExperiencesOf(reqs[c].id) : x.reward = StatedReward(reqs[c])

-----------------------------------------------------------------------------
(* The pair of states an experience records *)

\* The pairs of state names (Debug format) that are an allowed edge or a pair
\* of equal states.
EdgeOrSameNames ==
    { << DebugFmt(e[1]), DebugFmt(e[2]) >> : e \in AllowedEdges }
        \cup { << DebugFmt(s), DebugFmt(s) >> : s \in GameState }

\* C36: for every experience a play-action recorded, under any interleaving of
\* concurrent requests, the pair (state, next_state) is an allowed edge of the
\* state machine or a pair of equal states.
C36_ExperiencePairIsEdge ==
    \A s \in SessionIds : \A i \in 1..Len(experiences[s]) :
        << experiences[s][i].state.state, experiences[s][i].next_state.state >>
            \in EdgeOrSameNames

-----------------------------------------------------------------------------
(* One event and one experience per successful play-action *)

\* The positions of the events of a session in the event store.
EventsOfSession(s) == { i \in 1..Len(events) : events[i].session_id = s }

\* The requests of a session that have inserted their event and have not yet
\* reached the experience insert.
BetweenInserts(s) == { c \in Conns : reqs[c].pc = "exp" /\ reqs[c].sid = s }

\* C37: with stores that do not fail, every play-action that succeeds appends
\* exactly one event and exactly one experience, a request re-entering the
\* state the session is already in included: a session has as many
\* experiences as successful play-actions and one event more for each request
\* between its two inserts, so that once no request is in flight the three
\* numbers are equal; the records of an answered request are one event and
\* one experience.
C37_OneEventOneExperience ==
    /\ \A s \in SessionIds :
          /\ Len(experiences[s]) = succeeded[s]
          /\ Cardinality(EventsOfSession(s))
                 = succeeded[s] + Cardinality(BetweenInserts(s))
          /\ InFlight = {} =>
                 /\ Cardinality(EventsOfSession(s)) = succeeded[s]
                 /\ Len(experiences[s]) = succeeded[s]
    /\ \A c \in Conns :
          reqs[c].pc = "ok" =>
              /\ Cardinality({ i \in 1..Len(events) :
                                   events[i].event_id = reqs[c].id }) = 1
              /\ Cardinality(ExperiencesOf(reqs[c].id)) = 1

\* Two play-actions have succeeded on a session and none is in flight, one of
\* them a re-transition into the state the session was already in.
C37_Witness ==
    /\ InFlight = {}
    /\ \E s \in SessionIds :
          /\ succeeded[s] >= 2
          /\ \E i \in 1..Len(experiences[s]) :
                experiences[s][i].state = experiences[s][i].next_state

-----------------------------------------------------------------------------
(* The completed counter against the created counter *)

\* C38: in every reachable state in which every create-session request has
\* counted its session, sessions_completed <= sessions_created: a session is
\* counted completed at most once.
C38_CompletedAtMostCreated ==
    creating = {} => sessions_completed <= sessions_created

-----------------------------------------------------------------------------
(* The states a session driven by play-actions goes through *)

PlayStates == { Initialized, Playing, Evaluating, Completed }

\* One play-action run alone on a session in state st: the state the session
\* is in afterwards (a rejected transition leaves it where it was).
PlayOn(st, a) ==
    LET t == TransitionCheck(st, TargetState(a))
    IN IF t.ok THEN t.state ELSE st

RECURSIVE AfterPlays(_, _)
AfterPlays(st, plays) ==
    IF plays = << >> THEN st
    ELSE AfterPlays(PlayOn(st, Head(plays)), Tail(plays))

PlaySequences == UNION { [1..n -> ActionTypes] : n \in 0..MaxPlays }

CanComplete(st) == \E plays \in PlaySequences : AfterPlays(st, plays) = Completed

\* A request passes the check of transition_session in this step.
PassesCheck(c) == reqs[c].pc = "ts_get" /\ reqs'[c].pc = "ts_update"

\* C39: a created session driven only by play-actions is always Initialized,
\* Playing, Evaluating or Completed, never Idle or Probing; on a session that
\* is Initialized only a PlaceBet passes the state machine, and the session
\* leaves Initialized only for Playing; from every state a session reaches,
\* some sequence of play-actions still leads to Completed.
C39_PlayStatesAndCompletion ==
    /\ [](\A s \in DOMAIN sessions :
             /\ sessions[s].state \in PlayStates
             /\ CanComplete(sessions[s].state))
    /\ [][/\ \A c \in Conns :
               (PassesCheck(c) /\ sessions[reqs[c].sid].state = Initialized)
                   => reqs[c].action.type = "PlaceBet"
          /\ \A s \in DOMAIN sessions :
               (sessions[s].state = Initialized /\ sessions'[s].state # Initialized)
                   => sessions'[s].state = Playing]_vars

\* A session has been taken from Initialized to Playing by a PlaceBet and has
\* gone on to Completed.
C39_Witness ==
    \E c \in Conns :
        /\ reqs[c].pc = "ok"
        /\ reqs[c].action.type = "PlaceBet"
        /\ reqs[c].before_write = Initialized
        /\ sessions[reqs[c].sid].state = Completed

-----------------------------------------------------------------------------
(* What a play-action writes to the session store *)

\* The play-action request on connection c takes a step.
PlayStepOn(c) == reqs'[c] # reqs[c]

\* C40: a play-action changes only the state field of its own session:
\* session_id, game_id and the metrics (total_spins, total_payout) of that
\* session and every field of every other session are left as they were, so
\* the totals of every session stay 0.
C40_PlayWritesOnlyState ==
    /\ [][\A c \in Conns :
            PlayStepOn(c) =>
                /\ DOMAIN sessions' = DOMAIN sessions
                /\ \A s \in DOMAIN sessions :
                      IF s = reqs'[c].sid
                      THEN sessions'[s] =
                               [sessions[s] EXCEPT !.state = sessions'[s].state]
                      ELSE sessions'[s] = sessions[s]]_vars
    /\ [](\A s \in DOMAIN sessions :
             /\ sessions[s].session_id = s
             /\ sessions[s].total_spins = 0
             /\ sessions[s].total_payout = 0)

\* Two sessions exist, play-actions have taken the first to Evaluating and the
\* second, created for another game, is as it was created.
C40_Witness ==
    /\ Len(sessions) = 2
    /\ sessions[1].state = Evaluating
    /\ sessions[1].game_id = 1
    /\ sessions[2] = [session_id |-> 2, game_id |-> 2, state |-> Initialized,
                      total_spins |-> 0, total_payout |-> 0]
    /\ \E c \in Conns : reqs[c].pc = "ok" /\ reqs[c].sid = 1
                            /\ reqs[c].session.state = Evaluating

====
